---- MODULE Spec2Model ----
(***************************************************************************)
(* Model of the chat application's message-processing pipeline             *)
(* (llm-service: processUserMessage and its stages), the chat router       *)
(* (createChat with its detached background task, sendMessage, deleteChat, *)
(* updateChatTitle) and the conversation store (chat-service over the      *)
(* chat / message / citation / search_result tables).                      *)
(*                                                                         *)
(* Texts are sequences of one-character strings; the names "LF", "CR" and  *)
(* "TAB" stand for the control characters U+000A, U+000D and U+0009, and   *)
(* "BT" for the backtick.                                                  *)
(* Every await of the code is a step of its own, so that the calls         *)
(* interleave where the code's promises interleave.                        *)
(***************************************************************************)
EXTENDS Integers, Sequences, FiniteSets, TLC

(***************************************************************************)
(* Bounds                                                                  *)
(***************************************************************************)
\* number of store writes that may fail in one run
MaxStoreFaults == 1

(***************************************************************************)
(* Text helpers: JavaScript string operations on character sequences       *)
(***************************************************************************)
Ctrl == {"NUL", "TAB", "LF", "CR"}
WhiteSpace == {" ", "TAB", "LF", "CR"}
Digits == {"0", "1", "2", "3", "4", "5", "6", "7", "8", "9"}
Letters == {"a", "b", "c", "d", "e", "f", "g", "h", "i", "j", "k", "l", "m",
            "n", "o", "p", "q", "r", "s", "t", "u", "v", "w", "x", "y", "z",
            "A", "B", "C", "D", "E", "F", "G", "H", "I", "J", "K", "L", "M",
            "N", "O", "P", "Q", "R", "S", "T", "U", "V", "W", "X", "Y", "Z"}

\* s starts with the text p at position i
StartsAt(s, p, i) ==
    /\ i >= 1
    /\ i + Len(p) - 1 <= Len(s)
    /\ \A k \in 1..Len(p) : s[i + k - 1] = p[k]

\* String.prototype.trim
RECURSIVE TrimLeft(_)
TrimLeft(s) ==
    IF s # <<>> /\ s[1] \in WhiteSpace THEN TrimLeft(Tail(s)) ELSE s

RECURSIVE TrimRight(_)
TrimRight(s) ==
    IF s # <<>> /\ s[Len(s)] \in WhiteSpace
    THEN TrimRight(SubSeq(s, 1, Len(s) - 1))
    ELSE s

Trim(s) == TrimRight(TrimLeft(s))

\* s.replace(/[\u0000-\u0019]+/g, "")
StripControl(s) == SelectSeq(s, LAMBDA c : c \notin Ctrl)

\* s.replace(/ab/g, r) for a pattern of two different characters a, b and a
\* replacement of one character r: occurrences cannot overlap, so every
\* occurrence is replaced
Dropped == "DROPPED"
ReplacePair(s, a, b, r) ==
    LET hit(i) == i >= 1 /\ i < Len(s) /\ s[i] = a /\ s[i + 1] = b
        marked == [i \in 1..Len(s) |->
                     IF hit(i) THEN r
                     ELSE IF hit(i - 1) THEN Dropped ELSE s[i]]
    IN SelectSeq(marked, LAMBDA c : c # Dropped)

\* first position >= i at which p occurs in s, 0 when there is none
IndexOfFrom(s, p, i) ==
    LET hits == {k \in i..(Len(s) - Len(p) + 1) : StartsAt(s, p, k)} IN
    IF hits = {} THEN 0
    ELSE CHOOSE k \in hits : \A j \in hits : k <= j

\* first position >= i of s that holds no white space (Len(s)+1 at the end)
RECURSIVE SkipWs(_, _)
SkipWs(s, i) ==
    IF i <= Len(s) /\ s[i] \in WhiteSpace THEN SkipWs(s, i + 1) ELSE i

\* the text of a string constant of the code, as a character sequence
AnswerKey == <<"a", "n", "s", "w", "e", "r">>
CitationsKey == <<"c", "i", "t", "a", "t", "i", "o", "n", "s">>
TitleKey == <<"t", "i", "t", "l", "e">>
UrlKey == <<"u", "r", "l">>
RelevanceKey == <<"r", "e", "l", "e", "v", "a", "n", "c", "e">>
Quoted(s) == <<"\"">> \o s \o <<"\"">>
\* JavaScript's undefined, where a text is expected
Undef == <<"undefined">>

(***************************************************************************)
(* JSON.parse on character sequences.  A value is a record: t is its kind, *)
(* s the text of a string, xs the elements of an array or the member       *)
(* values of an object, ks the member keys of an object.                   *)
(***************************************************************************)
JVal(t, s, ks, xs) == [t |-> t, s |-> s, ks |-> ks, xs |-> xs]
JFail == [ok |-> FALSE, v |-> JVal("none", <<>>, <<>>, <<>>), nx |-> 0]
JOk(v, nx) == [ok |-> TRUE, v |-> v, nx |-> nx]

\* the character a JSON escape \c stands for
Unescape(c) ==
    CASE c = "n" -> "LF"
      [] c = "r" -> "CR"
      [] c = "t" -> "TAB"
      [] c = "b" -> "BS"
      [] c = "f" -> "FF"
      [] OTHER -> c
JsonEscapes == {"\"", "\\", "/", "b", "f", "n", "r", "t"}

RECURSIVE ParseStringFrom(_, _, _)
ParseStringFrom(s, j, acc) ==
    IF j > Len(s) THEN JFail
    ELSE IF s[j] = "\"" THEN JOk(JVal("str", acc, <<>>, <<>>), j + 1)
    ELSE IF s[j] = "\\"
         THEN IF j + 1 <= Len(s) /\ s[j + 1] \in JsonEscapes
              THEN ParseStringFrom(s, j + 2, Append(acc, Unescape(s[j + 1])))
              ELSE JFail
    ELSE IF s[j] \in Ctrl THEN JFail
    ELSE ParseStringFrom(s, j + 1, Append(acc, s[j]))

RECURSIVE SkipDigits(_, _)
SkipDigits(s, i) ==
    IF i <= Len(s) /\ s[i] \in Digits THEN SkipDigits(s, i + 1) ELSE i

RECURSIVE ParseValue(_, _)
RECURSIVE ParseMembers(_, _, _, _)
RECURSIVE ParseElements(_, _, _)

ParseValue(s, i0) ==
    LET i == SkipWs(s, i0) IN
    IF i > Len(s) THEN JFail
    ELSE IF s[i] = "\"" THEN ParseStringFrom(s, i + 1, <<>>)
    ELSE IF s[i] = "{"
         THEN LET j == SkipWs(s, i + 1) IN
              IF j <= Len(s) /\ s[j] = "}"
              THEN JOk(JVal("obj", <<>>, <<>>, <<>>), j + 1)
              ELSE ParseMembers(s, j, <<>>, <<>>)
    ELSE IF s[i] = "["
         THEN LET j == SkipWs(s, i + 1) IN
              IF j <= Len(s) /\ s[j] = "]"
              THEN JOk(JVal("arr", <<>>, <<>>, <<>>), j + 1)
              ELSE ParseElements(s, j, <<>>)
    ELSE IF s[i] \in Digits
         THEN JOk(JVal("num", <<>>, <<>>, <<>>), SkipDigits(s, i))
    ELSE IF StartsAt(s, <<"t", "r", "u", "e">>, i)
         THEN JOk(JVal("lit", <<>>, <<>>, <<>>), i + 4)
    ELSE IF StartsAt(s, <<"f", "a", "l", "s", "e">>, i)
         THEN JOk(JVal("lit", <<>>, <<>>, <<>>), i + 5)
    ELSE IF StartsAt(s, <<"n", "u", "l", "l">>, i)
         THEN JOk(JVal("lit", <<>>, <<>>, <<>>), i + 4)
    ELSE JFail

ParseMembers(s, i0, ks, xs) ==
    LET i == SkipWs(s, i0) IN
    IF i > Len(s) \/ s[i] # "\"" THEN JFail
    ELSE LET k == ParseStringFrom(s, i + 1, <<>>) IN
         IF ~k.ok THEN JFail
         ELSE LET c == SkipWs(s, k.nx) IN
              IF c > Len(s) \/ s[c] # ":" THEN JFail
              ELSE LET v == ParseValue(s, c + 1) IN
                   IF ~v.ok THEN JFail
                   ELSE LET e == SkipWs(s, v.nx) IN
                        IF e > Len(s) THEN JFail
                        ELSE IF s[e] = ","
                             THEN ParseMembers(s, e + 1, Append(ks, k.v.s),
                                               Append(xs, v.v))
                        ELSE IF s[e] = "}"
                             THEN JOk(JVal("obj", <<>>, Append(ks, k.v.s),
                                           Append(xs, v.v)), e + 1)
                        ELSE JFail

ParseElements(s, i0, xs) ==
    LET v == ParseValue(s, i0) IN
    IF ~v.ok THEN JFail
    ELSE LET e == SkipWs(s, v.nx) IN
         IF e > Len(s) THEN JFail
         ELSE IF s[e] = "," THEN ParseElements(s, e + 1, Append(xs, v.v))
         ELSE IF s[e] = "]"
              THEN JOk(JVal("arr", <<>>, <<>>, Append(xs, v.v)), e + 1)
         ELSE JFail

\* JSON.parse(s): one value, white space around it, nothing else
JSONParse(s) ==
    LET r == ParseValue(s, 1) IN
    IF r.ok /\ SkipWs(s, r.nx) = Len(s) + 1 THEN r ELSE JFail

\* the member of object o under key k (the last one wins, as in JSON.parse)
HasKey(o, k) == \E n \in 1..Len(o.ks) : o.ks[n] = k
Member(o, k) ==
    LET n == CHOOSE m \in 1..Len(o.ks) :
                 o.ks[m] = k /\ \A l \in (m + 1)..Len(o.ks) : o.ks[l] # k
    IN o.xs[n]

(***************************************************************************)
(* zod schemas                                                             *)
(***************************************************************************)
MaxCitations == 5
SpecialSchemes == {<<"h", "t", "t", "p">>, <<"h", "t", "t", "p", "s">>,
                   <<"f", "t", "p">>, <<"w", "s">>, <<"w", "s", "s">>}

RECURSIVE SkipSlashes(_, _)
SkipSlashes(s, i) ==
    IF i <= Len(s) /\ s[i] \in {"/", "\\"} THEN SkipSlashes(s, i + 1) ELSE i

\* z.string().url(): new URL(u) succeeds, which takes a scheme and, for the
\* special schemes, a host
IsUrl(u) ==
    LET s == Trim(StripControl(u))
        c == IndexOfFrom(s, <<":">>, 1)
    IN /\ c > 1
       /\ s[1] \in Letters
       /\ \A k \in 2..(c - 1) : s[k] \in Letters \cup Digits \cup {"+", "-", "."}
       /\ SubSeq(s, 1, c - 1) \in SpecialSchemes
             => LET h == SkipSlashes(s, c + 1) IN
                h <= Len(s) /\ s[h] \notin {"?", "#"}

CitationSchema(v) ==
    /\ v.t = "obj"
    /\ HasKey(v, TitleKey) /\ Member(v, TitleKey).t = "str"
    /\ HasKey(v, UrlKey) /\ Member(v, UrlKey).t = "str"
    /\ IsUrl(Member(v, UrlKey).s)
    /\ HasKey(v, RelevanceKey) => Member(v, RelevanceKey).t = "str"

LLMResponseSchema(v) ==
    /\ v.t = "obj"
    /\ HasKey(v, AnswerKey) /\ Member(v, AnswerKey).t = "str"
    /\ HasKey(v, CitationsKey) /\ Member(v, CitationsKey).t = "arr"
    /\ Len(Member(v, CitationsKey).xs) <= MaxCitations
    /\ \A n \in 1..Len(Member(v, CitationsKey).xs) :
          CitationSchema(Member(v, CitationsKey).xs[n])

\* a citation as the schema returns it
Citation(v) ==
    [title |-> Member(v, TitleKey).s,
     url |-> Member(v, UrlKey).s,
     relevance |-> IF HasKey(v, RelevanceKey)
                   THEN Member(v, RelevanceKey).s ELSE Undef]

(***************************************************************************)
(* Response normalization (llm-service)                                    *)
(***************************************************************************)
Fence == <<"BT", "BT", "BT">>
JsonTag == <<"j", "s", "o", "n">>

\* the cleaning chain applied to the LLM response before parsing
CleanResponse(llmResponse) ==
    Trim(ReplacePair(ReplacePair(StripControl(llmResponse), "\\", "n", " "),
                     "\\", "\"", "\""))

\* cleanedResponse.match of the code-fence pattern (three backticks, an
\* optional json tag, a lazy capture, three backticks): the leftmost opening
\* fence that has a closing fence, and the text between them
RECURSIVE FenceMatchFrom(_, _)
FenceMatchFrom(s, i) ==
    LET p == IndexOfFrom(s, Fence, i) IN
    IF p = 0 THEN [found |-> FALSE, cap |-> <<>>]
    ELSE LET after == IF StartsAt(s, JsonTag, p + 3) THEN p + 7 ELSE p + 3
             q == IndexOfFrom(s, Fence, after)
         IN IF q # 0 THEN [found |-> TRUE, cap |-> SubSeq(s, after, q - 1)]
            ELSE FenceMatchFrom(s, p + 1)

\* jsonMatch[1]?.trim() || cleanedResponse
JsonContent(cleanedResponse) ==
    LET m == FenceMatchFrom(cleanedResponse, 1)
        inner == IF m.found THEN Trim(m.cap) ELSE Trim(cleanedResponse)
    IN IF inner # <<>> THEN inner ELSE cleanedResponse

\* llmResponse.match(/"answer"\s*:\s*"([^"]*)"/)
RECURSIVE AnswerMatchFrom(_, _)
AnswerMatchFrom(s, i) ==
    LET p == IndexOfFrom(s, Quoted(AnswerKey), i) IN
    IF p = 0 THEN [found |-> FALSE, cap |-> <<>>]
    ELSE LET c == SkipWs(s, p + Len(AnswerKey) + 2)
             o == SkipWs(s, c + 1)
             e == IndexOfFrom(s, <<"\"">>, o + 1)
         IN IF /\ c <= Len(s) /\ s[c] = ":"
               /\ o <= Len(s) /\ s[o] = "\""
               /\ e # 0
            THEN [found |-> TRUE, cap |-> SubSeq(s, o + 1, e - 1)]
            ELSE AnswerMatchFrom(s, p + 1)

\* a catch block that takes the captured answer field even when it is empty
ExtractAnswerAnyCapture(llmResponse) ==
    LET answerMatch == AnswerMatchFrom(llmResponse, 1) IN
    IF answerMatch.found
    THEN ReplacePair(ReplacePair(answerMatch.cap, "\\", "n", "LF"),
                     "\\", "\"", "\"")
    ELSE llmResponse

\* the catch block: the answer field when the regular expression finds a
\* non-empty one, the raw response otherwise
ExtractAnswer(llmResponse) ==
    LET answerMatch == AnswerMatchFrom(llmResponse, 1) IN
    IF answerMatch.found /\ answerMatch.cap # <<>>
    THEN ReplacePair(ReplacePair(answerMatch.cap, "\\", "n", "LF"),
                     "\\", "\"", "\"")
    ELSE llmResponse

\* LLMResponseSchema.parse(jsonResponse) on the outcome j of JSON.parse: the
\* validated answer and citations, or the thrown parse error (ok FALSE)
SchemaParse(j) ==
    IF j.ok /\ LLMResponseSchema(j.v)
    THEN [ok |-> TRUE,
          answer |-> Member(j.v, AnswerKey).s,
          citations |-> [n \in 1..Len(Member(j.v, CitationsKey).xs) |->
                            Citation(Member(j.v, CitationsKey).xs[n])]]
    ELSE [ok |-> FALSE, answer |-> <<>>, citations |-> <<>>]

\* the try block: JSON.parse and LLMResponseSchema.parse of the cleaned text
ValidatedResponse(llmResponse) ==
    SchemaParse(JSONParse(JsonContent(CleanResponse(llmResponse))))

\* the object returned after the try block (v.ok) or from the catch block;
\* withCitations says whether the catch block's object has a citations
\* property
NormalizedReturn(v, llmResponse, withCitations) ==
    IF v.ok
    THEN [answer |-> v.answer, citations |-> v.citations, hasCitations |-> TRUE]
    ELSE [answer |-> ExtractAnswer(llmResponse), citations |-> <<>>,
          hasCitations |-> withCitations]

\* what processQueryWithSearch returns for an LLM response; hasCitations is
\* FALSE where the returned object has no citations property
NormalizeWithSearch(llmResponse) ==
    NormalizedReturn(ValidatedResponse(llmResponse), llmResponse, FALSE)

\* what processQueryWithoutSearch returns for an LLM response
NormalizeWithoutSearch(llmResponse) ==
    NormalizedReturn(ValidatedResponse(llmResponse), llmResponse, TRUE)

\* generateSearchQuery's clean-up of the generated text:
\* .replace(/^["']|["']$/g, "").replace(/^Search query: /i, "").trim()
SearchQueryPrefix ==
    <<"s", "e", "a", "r", "c", "h", " ", "q", "u", "e", "r", "y", ":", " ">>
ToLower(c) ==
    CASE c = "S" -> "s" [] c = "E" -> "e" [] c = "A" -> "a" [] c = "R" -> "r"
      [] c = "C" -> "c" [] c = "H" -> "h" [] c = "Q" -> "q" [] c = "U" -> "u"
      [] c = "Y" -> "y" [] OTHER -> c
StripQuotes(s) ==
    LET a == IF s # <<>> /\ s[1] \in {"\"", "'"} THEN Tail(s) ELSE s
    IN IF a # <<>> /\ a[Len(a)] \in {"\"", "'"}
       THEN SubSeq(a, 1, Len(a) - 1) ELSE a
StripPrefix(s) ==
    IF StartsAt([n \in 1..Len(s) |-> ToLower(s[n])], SearchQueryPrefix, 1)
    THEN SubSeq(s, Len(SearchQueryPrefix) + 1, Len(s))
    ELSE s
CleanSearchQuery(searchQueryGeneration) ==
    Trim(StripPrefix(StripQuotes(searchQueryGeneration)))

\* generateChatTitle's clean-up: .trim().replace(/^"(.+)"$/, "$1");
\* the dot matches no line terminator
CleanTitle(titleGeneration) ==
    LET t == Trim(titleGeneration) IN
    IF /\ Len(t) >= 3 /\ t[1] = "\"" /\ t[Len(t)] = "\""
       /\ \A n \in 2..(Len(t) - 1) : t[n] \notin {"LF", "CR"}
    THEN SubSeq(t, 2, Len(t) - 1)
    ELSE t

(***************************************************************************)
(* The external collaborators: what the LLM and the search API may return  *)
(***************************************************************************)
\* callLLM's text when the upstream response has no text block
NoResponseText == <<"N", "o", " ", "r", "e", "s", "p", "o", "n", "s", "e", " ", "f", "r", "o", "m", " ", "A", "I", ".", " ", "P", "l", "e", "a", "s", "e", " ", "t", "r", "y", " ", "a", "g", "a", "i", "n", ".">>

\* texts the LLM may return when asked for a search query
QueryTexts == {<<"q">>, <<"\"", "q", "\"">>, <<>>}

\* a search hit as searchWeb returns it
Hit(u) == [title |-> <<"t">>, url |-> u, content |-> <<"c">>]
SearchHits == {<<>>, <<Hit(<<"u", ":", "x">>)>>}

\* texts the LLM may return when asked for an answer
ValidAnswer == <<"{", "\"", "a", "n", "s", "w", "e", "r", "\"", ":", "\"", "h", "i", "\"", ",", "\"", "c", "i", "t", "a", "t", "i", "o", "n", "s", "\"", ":", "[", "]", "}">>
CitedAnswer == <<"{", "\"", "a", "n", "s", "w", "e", "r", "\"", ":", "\"", "h", "i", "\"", ",", "\"", "c", "i", "t", "a", "t", "i", "o", "n", "s", "\"", ":", "[", "{", "\"", "t", "i", "t", "l", "e", "\"", ":", "\"", "t", "\"", ",", "\"", "u", "r", "l", "\"", ":", "\"", "u", ":", "x", "\"", "}", "]", "}">>
EmptyAnswer == <<"{", "\"", "a", "n", "s", "w", "e", "r", "\"", ":", "\"", "\"", ",", "\"", "c", "i", "t", "a", "t", "i", "o", "n", "s", "\"", ":", "[", "]", "}">>
FencedAnswer == <<"BT", "BT", "BT", "j", "s", "o", "n", "LF", "{", "\"", "a", "n", "s", "w", "e", "r", "\"", ":", "\"", "h", "i", "\"", ",", "\"", "c", "i", "t", "a", "t", "i", "o", "n", "s", "\"", ":", "[", "]", "}", "LF", "BT", "BT", "BT">>
TruncatedAnswer == <<"{", "\"", "a", "n", "s", "w", "e", "r", "\"", ":", "\"", "h", "i", "\"", ",", "\"", "c", "i", "t">>
BadUrlAnswer == <<"{", "\"", "a", "n", "s", "w", "e", "r", "\"", ":", "\"", "h", "i", "\"", ",", "\"", "c", "i", "t", "a", "t", "i", "o", "n", "s", "\"", ":", "[", "{", "\"", "t", "i", "t", "l", "e", "\"", ":", "\"", "t", "\"", ",", "\"", "u", "r", "l", "\"", ":", "\"", "x", "\"", "}", "]", "}">>
PlainAnswer == <<"h", "i">>
AnswerTexts == {ValidAnswer, CitedAnswer, EmptyAnswer, FencedAnswer,
                TruncatedAnswer, BadUrlAnswer, PlainAnswer, <<>>}

\* JSON.stringify of a string: quotes, backslashes and newlines are escaped
RECURSIVE Escaped(_)
Escaped(s) ==
    IF s = <<>> THEN <<>>
    ELSE (CASE Head(s) = "\"" -> <<"\\", "\"">>
            [] Head(s) = "\\" -> <<"\\", "\\">>
            [] Head(s) = "LF" -> <<"\\", "n">>
            [] OTHER -> <<Head(s)>>) \o Escaped(Tail(s))
JsonString(s) == Quoted(Escaped(s))
RECURSIVE Joined(_)
Joined(xs) ==
    IF xs = <<>> THEN <<>>
    ELSE IF Len(xs) = 1 THEN xs[1]
    ELSE xs[1] \o <<",">> \o Joined(Tail(xs))
\* the JSON text of a citation and of a response object that conforms to
\* LLMResponseSchema
CitationText(c) ==
    <<"{">> \o Quoted(TitleKey) \o <<":">> \o JsonString(c.title) \o <<",">>
        \o Quoted(UrlKey) \o <<":">> \o JsonString(c.url) \o <<"}">>
ObjectText(answer, cites) ==
    <<"{">> \o Quoted(AnswerKey) \o <<":">> \o JsonString(answer) \o <<",">>
        \o Quoted(CitationsKey) \o <<":", "[">>
        \o Joined([n \in 1..Len(cites) |-> CitationText(cites[n])])
        \o <<"]", "}">>

\* response objects and the texts that wrap them in a code fence, with and
\* without the json tag
Cite(u) == [title |-> <<"t">>, url |-> u, relevance |-> Undef]
ObjectAnswers ==
    {<<"h", "i">>, <<>>, <<"a", " ", "b">>, <<"a", "\"", "b">>,
     <<"a", "LF", "b">>}
ObjectCitations ==
    {<<>>, <<Cite(<<"u", ":", "x">>)>>,
     <<Cite(<<"u", ":", "x">>), Cite(<<"u", ":", "y">>)>>}
FenceTags == {<<>>, JsonTag}
Fenced(tag, body) == Fence \o tag \o <<"LF">> \o body \o <<"LF">> \o Fence
FencedObjects ==
    {[text |-> Fenced(tag, ObjectText(a, cs)), answer |-> a, citations |-> cs] :
        a \in ObjectAnswers, cs \in ObjectCitations, tag \in FenceTags}

\* texts that are malformed as structured output: truncated JSON, fenced
\* JSON, JSON with stray control characters, JSON that fails the schema
Prefixes(s) == {SubSeq(s, 1, n) : n \in 1..(Len(s) - 1)}
WithControl(s, c) ==
    {SubSeq(s, 1, n) \o <<c>> \o SubSeq(s, n + 1, Len(s)) : n \in 0..Len(s)}
NoCitationsAnswer == <<"{", "\"", "a", "n", "s", "w", "e", "r", "\"", ":", "\"", "h", "i", "\"", "}">>
NumberAnswer == <<"{", "\"", "a", "n", "s", "w", "e", "r", "\"", ":", "1", ",", "\"", "c", "i", "t", "a", "t", "i", "o", "n", "s", "\"", ":", "[", "]", "}">>
ArrayAnswer == <<"[", "]">>
SixCitations == [n \in 1..(MaxCitations + 1) |-> Cite(<<"u", ":", "x">>)]
SchemaFailingTexts ==
    {BadUrlAnswer, NoCitationsAnswer, NumberAnswer, ArrayAnswer,
     ObjectText(<<"h", "i">>, SixCitations)}
TruncatedTexts ==
    Prefixes(ValidAnswer) \cup Prefixes(EmptyAnswer) \cup Prefixes(CitedAnswer)
ControlTexts == WithControl(ValidAnswer, "NUL") \cup WithControl(EmptyAnswer, "LF")
MalformedTexts ==
    TruncatedTexts \cup {o.text : o \in FencedObjects} \cup ControlTexts
        \cup SchemaFailingTexts
\* response objects cut off behind their answer field, with the answer the
\* field holds
AnswerField(a) == <<"{">> \o Quoted(AnswerKey) \o <<":">> \o JsonString(a)
CutOffs(a) ==
    {Len(AnswerField(a)), Len(AnswerField(a)) + 1, Len(ObjectText(a, <<>>)) - 1}
TruncatedObjects ==
    UNION {{[text |-> SubSeq(ObjectText(a, <<>>), 1, n), answer |-> a] :
               n \in CutOffs(a)} : a \in ObjectAnswers}
\* response objects that conform to the schema, without fence or stray text
PlainObjects ==
    {[text |-> ObjectText(a, cs), answer |-> a, citations |-> cs] :
        a \in ObjectAnswers, cs \in ObjectCitations}
NormalizeTexts ==
    AnswerTexts \cup MalformedTexts \cup {o.text : o \in TruncatedObjects}
        \cup {o.text : o \in PlainObjects}

\* the placeholder title the sidebar passes to createChat
NewChat == <<"N", "e", "w", " ", "C", "h", "a", "t">>
\* texts the LLM may return when asked for a title
TitleTexts == {<<"T">>, <<"\"", "T", "\"">>, NewChat}

\* user messages
Contents == {<<"m">>}

\* the apology texts of the catch blocks of sendMessage and of the background
\* task (each abbreviated to one symbol: no code looks inside them)
SendApology == <<"I'm sorry, I encountered an error processing your request.">>
CreateApology == <<"I'm sorry, I couldn't process your question properly.">>

\* An environment says what the collaborators may do in a run: the texts the
\* LLM may return per stage, the outcomes of an upstream call, the hit lists
\* of the search API, and how many store writes may fail.
FullEnv ==
    [queries |-> QueryTexts, answers |-> AnswerTexts, titles |-> TitleTexts,
     hits |-> SearchHits, kinds |-> {"error", "notext", "text"},
     callerTitles |-> {NewChat, <<"C">>},
     searchFails |-> TRUE, faults |-> MaxStoreFaults]
\* the environment of the runs that interleave several calls: one text per
\* stage, and the LLM may fail
SmallEnv ==
    [queries |-> {<<"q">>}, answers |-> {CitedAnswer}, titles |-> {<<"T">>},
     hits |-> {<<Hit(<<"u", ":", "x">>)>>}, kinds |-> {"error", "text"},
     callerTitles |-> {NewChat},
     searchFails |-> FALSE, faults |-> 0]
\* texts the query-generation LLM call may return: the query bare, wrapped
\* in quotes, behind the prefix, and with white space around it
PrefixText == <<"S", "e", "a", "r", "c", "h", " ", "q", "u", "e", "r", "y", ":", " ">>
QueryBodies ==
    {<<"q">>, Quoted(<<"q">>), <<"'", "q", "'">>, Quoted(Quoted(<<"q">>)),
     PrefixText \o <<"q">>, PrefixText \o Quoted(<<"q">>),
     Quoted(PrefixText \o <<"q">>), PrefixText \o PrefixText \o <<"q">>,
     <<"a", " ", "b">>, <<>>}
GeneratedQueries ==
    QueryBodies \cup {b \o <<"LF">> : b \in QueryBodies}
        \cup {<<" ">> \o b : b \in QueryBodies}
\* the environment of the runs that check the clean-up of the generated
\* query: every text of GeneratedQueries in front of the other stages
QueryEnv ==
    [queries |-> GeneratedQueries, answers |-> {CitedAnswer, PlainAnswer},
     titles |-> {<<"T">>},
     hits |-> SearchHits, kinds |-> {"error", "text"},
     callerTitles |-> {NewChat},
     searchFails |-> TRUE, faults |-> 0]
\* the environment of the runs that check the normalization of the answering
\* LLM call: every text of NormalizeTexts, one text for the other stages
NormalizeEnv ==
    [queries |-> {<<"q">>}, answers |-> NormalizeTexts, titles |-> {<<"T">>},
     hits |-> {<<Hit(<<"u", ":", "x">>)>>}, kinds |-> {"error", "text"},
     callerTitles |-> {NewChat},
     searchFails |-> TRUE, faults |-> 0]

(***************************************************************************)
(* State                                                                   *)
(***************************************************************************)
VARIABLES
    chats,          \* chat table: chat id -> [title]
    messages,       \* message table: a set of rows
    citations,      \* citation table: a set of rows
    searchResults,  \* search_result table: a set of rows
    task,           \* every call and background task: position and locals
    storeFaults,    \* number of store writes that failed so far
    exa             \* the search client module: whether env.EXA_API_KEY is
                    \* set, and the module variable exaClient

vars == <<chats, messages, citations, searchResults, task, storeFaults, exa>>

\* chat ids: createChat call k creates chat k
ChatIds == {1}
\* the sendMessage calls of a run
SendIds == {1}

\* the calls of the router and the detached background tasks
SendTasks == {<<"send", i>> : i \in SendIds}
CreateTasks == {<<"create", k>> : k \in ChatIds}
BgTasks == {<<"bg", k>> : k \in ChatIds}
\* the getChat calls of a run, and an id that no createChat call generates
GetIds == {1, 2}
GetTasks == {<<"get", i>> : i \in GetIds}
UnknownChat == 2
\* the sendMessage calls of the runs in which two calls address one chat
RaceTasks == SendTasks \cup {<<"send", 2>>}
Tasks == RaceTasks \cup CreateTasks \cup BgTasks \cup GetTasks

\* message ids (uuidv4): the call that generated the id and the message of
\* that call it is for, which makes ids unique
MessageId(t, k) == [by |-> t, k |-> k]
NoId == MessageId(<<"none", 0>>, "none")

NoResult == [status |-> "none", success |-> FALSE, response |-> <<>>,
             citations |-> <<>>, found |-> FALSE, title |-> <<>>,
             messages |-> <<>>]

\* the tables before any row is stored
NoStore == [chats |-> <<>>, messages |-> {}, citations |-> {}]

\* a task that has not been called. seen records the orderIndex values that
\* addMessageToChat's latest read found in the chat, llmResponse the text the
\* answering LLM call returned, store0 and store1 the tables as the first
\* and the last select of a getChat call found them, messageCount the
\* chat.messages.length that sendMessage tested, call the upstream outcome
\* of the task's latest callLLM and whether callLLM returned, searched
\* whether searchWeb has returned results to the task, searchCalled whether
\* the task has called searchWeb, hungAt the await at
\* which the task waits for a call that never returns.
IdleTask ==
    [pc |-> "idle", chatId |-> 0, content |-> <<>>,
     orderIndex |-> 0, seen |-> {},
     fallback |-> FALSE, pum |-> "none",
     searchQuery |-> Undef, hasResults |-> FALSE, results |-> <<>>,
     llmResponse |-> <<>>,
     answer |-> <<>>, citations |-> <<>>, hasCitations |-> FALSE,
     messageId |-> NoId, title |-> <<>>,
     failed |-> {}, storeFailed |-> FALSE,
     store0 |-> NoStore, store1 |-> NoStore,
     messageCount |-> 0,
     call |-> [kind |-> "none", ok |-> FALSE],
     searched |-> FALSE, searchCalled |-> FALSE, hungAt |-> "none",
     result |-> NoResult]

\* the search client module: exaClient is null when the module is loaded,
\* and holds the first handle once a search has constructed it
NoClient == 0
LoadedModule == {[apiKey |-> k, exaClient |-> NoClient] : k \in BOOLEAN}
UsedModule == {[apiKey |-> TRUE, exaClient |-> NoClient + 1]}

Init ==
    /\ chats = <<>>
    /\ messages = {}
    /\ citations = {}
    /\ searchResults = {}
    /\ task = [t \in Tasks |-> IdleTask]
    /\ storeFaults = 0
    /\ exa \in LoadedModule

(***************************************************************************)
(* Conversation store (chat-service, schema)                               *)
(***************************************************************************)
ChatExists(c) == c \in DOMAIN chats

\* rows of a table that belong to a chat or a message
MessagesOf(c) == {m \in messages : m.chatId = c}
SnapshotsOf(id) == {r \in searchResults : r.messageId = id}

\* the citation rows of a message in the order of their insertion
RECURSIVE RowsByIndex(_)
RowsByIndex(rows) ==
    IF rows = {} THEN <<>>
    ELSE LET first == CHOOSE r \in rows : \A q \in rows : r.n <= q.n IN
         <<first>> \o RowsByIndex(rows \ {first})
\* a select of the citation table without the condition on messageId
CitationsOfAnyMessage(id) == RowsByIndex(citations)

CitationsOf(id) == RowsByIndex({r \in citations : r.messageId = id})

OrderIndexes(c) == {m.orderIndex : m \in MessagesOf(c)}

SetMax(S) == CHOOSE x \in S : \A y \in S : y <= x

\* the read with the increment forgotten
NextOrderIndexNoIncrement(c) ==
    IF MessagesOf(c) # {} THEN SetMax(OrderIndexes(c)) ELSE 0

\* addMessageToChat's read: select orderIndex ... order by desc limit 1,
\* then maxOrder + 1, or 0 for a chat without messages
NextOrderIndex(c) ==
    LET existingMessages == MessagesOf(c) IN
    IF existingMessages # {}
    THEN SetMax({m.orderIndex : m \in existingMessages}) + 1
    ELSE 0

\* whether a store write of this step fails (a bounded number may)
MayFail(e) == IF storeFaults < e.faults THEN {FALSE, TRUE} ELSE {FALSE}

MessageRow(id, c, role, content, searchQuery, orderIndex) ==
    [id |-> id, chatId |-> c, role |-> role, content |-> content,
     searchQuery |-> searchQuery, orderIndex |-> orderIndex]

\* the insert with the placeholder title in place of the caller's
InsertChatPlaceholder(c, title) == chats' = (c :> [title |-> NewChat]) @@ chats

\* db.insert(chats)
InsertChat(c, title) == chats' = (c :> [title |-> title]) @@ chats

\* db.update(chats).set({title}).where(id = c): no row, no change
UpdateTitle(c, title) ==
    chats' = [d \in DOMAIN chats |->
                 IF d = c THEN [title |-> title] ELSE chats[d]]

\* a delete of the chat row on tables without cascading foreign keys
DeleteRowOnly(c) ==
    /\ chats' = [d \in DOMAIN chats \ {c} |-> chats[d]]
    /\ UNCHANGED <<messages, citations, searchResults>>

\* db.delete(chats).where(id = c), with the cascades of the schema
CascadeDelete(c) ==
    LET gone == {m.id : m \in MessagesOf(c)}
    IN /\ chats' = [d \in DOMAIN chats \ {c} |-> chats[d]]
       /\ messages' = messages \ MessagesOf(c)
       /\ citations' = {r \in citations : r.messageId \notin gone}
       /\ searchResults' = {r \in searchResults : r.messageId \notin gone}

\* the orders in which select ... order by orderIndex may return the rows of
\* a chat: ascending, rows of equal orderIndex in any order
RECURSIVE RowOrders(_)
RowOrders(S) ==
    IF S = {} THEN {<<>>}
    ELSE UNION {{<<x>> \o p : p \in RowOrders(S \ {x})} : x \in S}

SortedReads(c) ==
    {rows \in RowOrders(MessagesOf(c)) :
        \A n \in 1..(Len(rows) - 1) :
            rows[n].orderIndex <= rows[n + 1].orderIndex}

\* a message as getChatById returns it: the row with its citations
ChatMessage(m) ==
    [id |-> m.id, role |-> m.role, content |-> m.content,
     searchQuery |-> m.searchQuery,
     citations |-> [n \in 1..Len(CitationsOf(m.id)) |->
                       [title |-> CitationsOf(m.id)[n].title,
                        url |-> CitationsOf(m.id)[n].url,
                        relevance |-> CitationsOf(m.id)[n].relevance]],
     orderIndex |-> m.orderIndex]

(***************************************************************************)
(* Steps shared by the calls                                               *)
(***************************************************************************)
Set(t, changes) == task' = [task EXCEPT ![t] = changes @@ @]

\* a caller can name a chat of earlier runs, and a chat of this run once
\* createChat has returned its id (a uuid)
Addressable(c) ==
    IF c \in ChatIds THEN task[<<"create", c>>].pc = "done" ELSE TRUE

\* callLLM on an upstream outcome: an upstream error is rethrown as the
\* generic failure, a response without a text block yields the fixed text
Upstream(e, texts) ==
    {[kind |-> k, text |-> <<>>] : k \in e.kinds \ {"text"}}
        \cup {[kind |-> "text", text |-> x] : x \in texts}
callLLM(up) ==
    IF up.kind = "error" THEN [ok |-> FALSE, text |-> <<>>]
    ELSE IF up.kind = "text" THEN [ok |-> TRUE, text |-> up.text]
    ELSE [ok |-> TRUE, text |-> NoResponseText]
Called(up) == [call |-> [kind |-> up.kind, ok |-> callLLM(up).ok]]

\* an insert into a message table with a unique constraint on (chatId,
\* orderIndex)
AddMessageInsertUnique(e, t, k, role, content, searchQuery, orderIndex, okChanges, failChanges) ==
    IF ~ChatExists(task[t].chatId) \/ orderIndex \in OrderIndexes(task[t].chatId)
    THEN /\ Set(t, failChanges @@ [storeFailed |-> TRUE])
         /\ UNCHANGED <<chats, messages, citations, searchResults, storeFaults>>
    ELSE /\ messages' = messages \cup
                {MessageRow(MessageId(t, k), task[t].chatId, role, content,
                            searchQuery, orderIndex)}
         /\ Set(t, okChanges @@ [messageId |-> MessageId(t, k)])
         /\ UNCHANGED <<chats, citations, searchResults, storeFaults>>

\* addMessageToChat after its read: the insert into the message table, which
\* the foreign key on the chat rejects for a chat that does not exist
AddMessageInsert(e, t, k, role, content, searchQuery, orderIndex, okChanges, failChanges) ==
    \E fail \in MayFail(e) :
        IF fail \/ ~ChatExists(task[t].chatId)
        THEN /\ storeFaults' = IF fail THEN storeFaults + 1 ELSE storeFaults
             /\ Set(t, failChanges @@ [storeFailed |-> TRUE])
             /\ UNCHANGED <<chats, messages, citations, searchResults>>
        ELSE /\ messages' = messages \cup
                    {MessageRow(MessageId(t, k), task[t].chatId, role, content,
                                searchQuery, orderIndex)}
             /\ Set(t, okChanges @@ [messageId |-> MessageId(t, k)])
             /\ UNCHANGED <<chats, citations, searchResults, storeFaults>>

MessageExists(id) == \E m \in messages : m.id = id

\* addMessageToChat's Promise.all over the citation inserts: when one of
\* them fails, any of the others may still have been stored
AddMessageCitations(e, t, okChanges, failChanges) ==
    LET cs == task[t].citations
        rows(keep) == {[messageId |-> task[t].messageId, n |-> n,
                        title |-> cs[n].title, url |-> cs[n].url,
                        relevance |-> cs[n].relevance] : n \in keep}
    IN \E fail \in MayFail(e) :
        IF ~MessageExists(task[t].messageId)
        THEN /\ Set(t, failChanges @@ [storeFailed |-> TRUE])
             /\ UNCHANGED <<chats, messages, citations, searchResults,
                            storeFaults>>
        ELSE IF fail
        THEN \E keep \in (SUBSET (1..Len(cs))) \ {1..Len(cs)} :
                /\ citations' = citations \cup rows(keep)
                /\ storeFaults' = storeFaults + 1
                /\ Set(t, failChanges @@ [storeFailed |-> TRUE])
                /\ UNCHANGED <<chats, messages, searchResults>>
        ELSE /\ citations' = citations \cup rows(1..Len(cs))
             /\ Set(t, okChanges)
             /\ UNCHANGED <<chats, messages, searchResults, storeFaults>>

\* addSearchResultsToMessage: one insert, guarded by the foreign key on the
\* message
AddSearchResultsToMessage(e, t, okChanges, failChanges) ==
    \E fail \in MayFail(e) :
        IF fail \/ ~MessageExists(task[t].messageId)
        THEN /\ storeFaults' = IF fail THEN storeFaults + 1 ELSE storeFaults
             /\ Set(t, failChanges @@ [storeFailed |-> TRUE])
             /\ UNCHANGED <<chats, messages, citations, searchResults>>
        ELSE /\ searchResults' = searchResults \cup
                    {[messageId |-> task[t].messageId,
                      query |-> task[t].searchQuery,
                      results |-> task[t].results]}
             /\ Set(t, okChanges)
             /\ UNCHANGED <<chats, messages, citations, storeFaults>>

\* the router's test before addSearchResultsToMessage:
\* response.searchQuery && response.searchResults (the empty string is falsy,
\* an empty array is not)
HasSnapshot(r) == r.searchQuery # Undef /\ r.searchQuery # <<>> /\ r.hasResults

\* message.citations && message.citations.length > 0
HasCitationRows(r) == r.hasCitations /\ Len(r.citations) > 0

(***************************************************************************)
(* processUserMessage (llm-service)                                        *)
(***************************************************************************)
\* a decision that never asks for a search
shouldSearchForQueryNever == FALSE
\* shouldSearchForQuery: returns true without calling the LLM
shouldSearchForQuery == TRUE

\* where the pipeline starts, and where its caller goes on
PipelineEntry ==
    IF shouldSearchForQuery
    THEN [pc |-> "gsq_llm", fallback |-> FALSE]
    ELSE [pc |-> "pqwos_llm", fallback |-> FALSE]
\* a sendMessage that stores the search results before the assistant message
AfterReturnSnapshotFirst(t) ==
    IF t[1] = "send" THEN "sm_snapshot" ELSE "bg_asst_insert"
AfterReturn(t) == IF t[1] = "send" THEN "sm_asst_read" ELSE "bg_asst_insert"
AfterThrow(t) == IF t[1] = "send" THEN "sm_catch_read" ELSE "bg_catch_insert"

\* a catch block that asks the search-based prompt again
PipelineCatchRetry(stage, r) ==
    [pc |-> "pqws_llm", fallback |-> TRUE, failed |-> r.failed \cup {stage}]

\* the catch block of processUserMessage: go on with the no-search prompt
PipelineCatch(stage, r) ==
    [pc |-> "pqwos_llm", fallback |-> TRUE, failed |-> r.failed \cup {stage},
     searchQuery |-> Undef, hasResults |-> FALSE, results |-> <<>>]

\* generateSearchQuery: the LLM call and the clean-up of its text
GenerateSearchQuery(e, t) ==
    /\ task[t].pc = "gsq_llm"
    /\ \E up \in Upstream(e, e.queries) :
          LET r == callLLM(up) IN
          IF r.ok
          THEN Set(t, Called(up) @@ [pc |-> "search",
                       searchQuery |-> CleanSearchQuery(r.text)])
          ELSE Set(t, Called(up) @@ PipelineCatch("query", task[t]))
    /\ UNCHANGED <<chats, messages, citations, searchResults, storeFaults>>
    /\ UNCHANGED exa

\* a getExaClient that constructs a handle at every call
getExaClientEager(x) ==
    IF ~x.apiKey THEN [ok |-> FALSE, exaClient |-> x.exaClient]
    ELSE [ok |-> TRUE, exaClient |-> x.exaClient + 1]

\* getExaClient: the handle of the module variable, constructed at the first
\* call; without the API key it throws and the variable stays null
getExaClient(x) ==
    IF x.exaClient # NoClient THEN [ok |-> TRUE, exaClient |-> x.exaClient]
    ELSE IF ~x.apiKey THEN [ok |-> FALSE, exaClient |-> NoClient]
    ELSE [ok |-> TRUE, exaClient |-> NoClient + 1]

\* searchWeb: getExaClient, then the hits of the search API; every failure
\* is rethrown as the generic search failure
SearchWeb(e, t) ==
    /\ task[t].pc = "search"
    /\ exa' = [exa EXCEPT !.exaClient = getExaClient(exa).exaClient]
    /\ IF getExaClient(exa).ok
       THEN \/ \E hits \in e.hits :
                 Set(t, [pc |-> "pqws_llm", hasResults |-> TRUE,
                         results |-> hits, searched |-> TRUE,
                         searchCalled |-> TRUE])
            \/ /\ e.searchFails
               /\ Set(t, [searchCalled |-> TRUE]
                             @@ PipelineCatch("search", task[t]))
       ELSE Set(t, [searchCalled |-> TRUE]
                      @@ PipelineCatch("search", task[t]))
    /\ UNCHANGED <<chats, messages, citations, searchResults, storeFaults>>

\* processQueryWithSearch outside the try block: its LLM failure is thrown
\* to the caller of processUserMessage
ProcessQueryWithSearchUncaught(e, t) ==
    /\ task[t].pc = "pqws_llm"
    /\ \E up \in Upstream(e, e.answers) :
          LET r == callLLM(up) IN
          IF r.ok
          THEN Set(t, Called(up) @@ [pc |-> AfterReturn(t), pum |-> "returned",
                       llmResponse |-> r.text]
                          @@ NormalizeWithSearch(r.text))
          ELSE Set(t, Called(up) @@ [pc |-> AfterThrow(t), pum |-> "threw",
                       failed |-> task[t].failed \cup {"answer"}])
    /\ UNCHANGED <<chats, messages, citations, searchResults, storeFaults>>
    /\ UNCHANGED exa

\* processQueryWithSearch and the return of processUserMessage's search
\* branch: answer, citations (absent after a parse failure), searchQuery,
\* searchResults
ProcessQueryWithSearch(e, t) ==
    /\ task[t].pc = "pqws_llm"
    /\ \E up \in Upstream(e, e.answers) :
          LET r == callLLM(up) IN
          IF r.ok
          THEN Set(t, Called(up) @@ [pc |-> AfterReturn(t), pum |-> "returned",
                       llmResponse |-> r.text]
                          @@ NormalizeWithSearch(r.text))
          ELSE Set(t, Called(up) @@ PipelineCatch("answer", task[t]))
    /\ UNCHANGED <<chats, messages, citations, searchResults, storeFaults>>
    /\ UNCHANGED exa

\* processQueryWithoutSearch, from the else branch or from the catch block
\* of processUserMessage; both return the answer with citations: []
ProcessQueryWithoutSearch(e, t) ==
    /\ task[t].pc = "pqwos_llm"
    /\ \E up \in Upstream(e, e.answers) :
          LET r == callLLM(up) IN
          IF r.ok
          THEN Set(t, Called(up) @@ [pc |-> AfterReturn(t), pum |-> "returned",
                       llmResponse |-> r.text,
                       answer |-> NormalizeWithoutSearch(r.text).answer,
                       citations |-> <<>>, hasCitations |-> TRUE,
                       searchQuery |-> Undef,
                       hasResults |-> FALSE, results |-> <<>>])
          ELSE IF task[t].fallback
          THEN Set(t, Called(up) @@ [pc |-> AfterThrow(t), pum |-> "threw",
                       failed |-> task[t].failed \cup {"fallback"}])
          ELSE Set(t, Called(up) @@ PipelineCatch("nosearch", task[t]))
    /\ UNCHANGED <<chats, messages, citations, searchResults, storeFaults>>
    /\ UNCHANGED exa

(***************************************************************************)
(* chatRouter.sendMessage                                                  *)
(***************************************************************************)
\* a chat with at most this many messages gets a generated title
TitleMaxMessages == 3

Returned(success, response, cites) ==
    [result |-> [NoResult EXCEPT !.status = "returned", !.success = success,
                                 !.response = response, !.citations = cites],
     pc |-> "done"]
Thrown == [result |-> [NoResult EXCEPT !.status = "thrown"], pc |-> "done"]

\* a success return that leaves the citations out
SendSuccessNoCitations(r) == Returned(TRUE, r.answer, <<>>)

\* the success return of sendMessage: response.citations || []
SendSuccess(r) ==
    Returned(TRUE, r.answer, IF r.hasCitations THEN r.citations ELSE <<>>)

\* the call arrives; addMessageToChat for the user message reads the
\* largest orderIndex of the chat
SmUserRead(t) ==
    /\ task[t].pc = "idle"
    /\ \E c \in {d \in ChatIds : Addressable(d)}, content \in Contents :
          Set(t, [pc |-> "sm_user_insert", chatId |-> c, content |-> content,
                  orderIndex |-> NextOrderIndex(c), seen |-> OrderIndexes(c)])
    /\ UNCHANGED <<chats, messages, citations, searchResults, storeFaults>>
    /\ UNCHANGED exa

\* the user message is inserted; processUserMessage starts
SmUserInsert(e, t) ==
    /\ task[t].pc = "sm_user_insert"
    /\ AddMessageInsert(e, t, "user", "user", task[t].content, Undef, task[t].orderIndex,
                        PipelineEntry, [pc |-> "sm_catch_read"])
    /\ UNCHANGED exa

SmAsstRead(t) ==
    /\ task[t].pc = "sm_asst_read"
    /\ Set(t, [pc |-> "sm_asst_insert",
               orderIndex |-> NextOrderIndex(task[t].chatId),
               seen |-> OrderIndexes(task[t].chatId)])
    /\ UNCHANGED <<chats, messages, citations, searchResults, storeFaults>>
    /\ UNCHANGED exa

SmAfterCitations(r) == IF HasSnapshot(r) THEN "sm_snapshot" ELSE "sm_get_row"

SmAsstInsert(e, t) ==
    /\ task[t].pc = "sm_asst_insert"
    /\ AddMessageInsert(e, t, "answer", "assistant", task[t].answer, task[t].searchQuery,
                        task[t].orderIndex,
                        [pc |-> IF HasCitationRows(task[t])
                                THEN "sm_asst_citations"
                                ELSE SmAfterCitations(task[t])],
                        [pc |-> "sm_catch_read"])
    /\ UNCHANGED exa

SmAsstCitations(e, t) ==
    /\ task[t].pc = "sm_asst_citations"
    /\ AddMessageCitations(e, t, [pc |-> SmAfterCitations(task[t])],
                           [pc |-> "sm_catch_read"])
    /\ UNCHANGED exa

SmSnapshot(e, t) ==
    /\ task[t].pc = "sm_snapshot"
    /\ AddSearchResultsToMessage(e, t, [pc |-> "sm_get_row"],
                                 [pc |-> "sm_catch_read"])
    /\ UNCHANGED exa

\* getChatById's first select: null for a chat that does not exist, and
\* then no title is generated
SmGetRow(t) ==
    /\ task[t].pc = "sm_get_row"
    /\ IF ChatExists(task[t].chatId)
       THEN Set(t, [pc |-> "sm_get_messages"])
       ELSE Set(t, SendSuccess(task[t]))
    /\ UNCHANGED <<chats, messages, citations, searchResults, storeFaults>>
    /\ UNCHANGED exa

\* a sendMessage that generates a title whatever the number of messages
SmGetMessagesNoTest(t) ==
    /\ task[t].pc = "sm_get_messages"
    /\ Set(t, [pc |-> "sm_title_llm",
               messageCount |-> Cardinality(MessagesOf(task[t].chatId))])
    /\ UNCHANGED <<chats, messages, citations, searchResults, storeFaults>>
    /\ UNCHANGED exa

\* getChatById's select of the messages, and the test of their number
SmGetMessages(t) ==
    /\ task[t].pc = "sm_get_messages"
    /\ IF Cardinality(MessagesOf(task[t].chatId)) <= TitleMaxMessages
       THEN Set(t, [pc |-> "sm_title_llm",
                    messageCount |-> Cardinality(MessagesOf(task[t].chatId))])
       ELSE Set(t, [messageCount |-> Cardinality(MessagesOf(task[t].chatId))]
                       @@ SendSuccess(task[t]))
    /\ UNCHANGED <<chats, messages, citations, searchResults, storeFaults>>
    /\ UNCHANGED exa

\* title generation whose failure is swallowed
SmTitleLLMSwallow(e, t) ==
    /\ task[t].pc = "sm_title_llm"
    /\ \E up \in Upstream(e, e.titles) :
          LET r == callLLM(up) IN
          IF r.ok
          THEN Set(t, Called(up) @@ [pc |-> "sm_update_title", title |-> CleanTitle(r.text)])
          ELSE Set(t, Called(up) @@ SendSuccess(task[t])
                          @@ [failed |-> task[t].failed \cup {"title"}])
    /\ UNCHANGED <<chats, messages, citations, searchResults, storeFaults>>
    /\ UNCHANGED exa

\* generateChatTitle
SmTitleLLM(e, t) ==
    /\ task[t].pc = "sm_title_llm"
    /\ \E up \in Upstream(e, e.titles) :
          LET r == callLLM(up) IN
          IF r.ok
          THEN Set(t, Called(up) @@ [pc |-> "sm_update_title", title |-> CleanTitle(r.text)])
          ELSE Set(t, Called(up) @@ [pc |-> "sm_catch_read",
                       failed |-> task[t].failed \cup {"title"}])
    /\ UNCHANGED <<chats, messages, citations, searchResults, storeFaults>>
    /\ UNCHANGED exa

\* a sendMessage that ignores a failed updateChatTitle
SmUpdateTitleSwallow(e, t) ==
    /\ task[t].pc = "sm_update_title"
    /\ \E fail \in MayFail(e) :
          IF fail
          THEN /\ storeFaults' = storeFaults + 1
               /\ Set(t, [storeFailed |-> TRUE] @@ SendSuccess(task[t]))
               /\ UNCHANGED chats
          ELSE /\ UpdateTitle(task[t].chatId, task[t].title)
               /\ Set(t, SendSuccess(task[t]))
               /\ UNCHANGED storeFaults
    /\ UNCHANGED <<messages, citations, searchResults>>
    /\ UNCHANGED exa

\* updateChatTitle, then the success return
SmUpdateTitle(e, t) ==
    /\ task[t].pc = "sm_update_title"
    /\ \E fail \in MayFail(e) :
          IF fail
          THEN /\ storeFaults' = storeFaults + 1
               /\ Set(t, [pc |-> "sm_catch_read", storeFailed |-> TRUE])
               /\ UNCHANGED chats
          ELSE /\ UpdateTitle(task[t].chatId, task[t].title)
               /\ Set(t, SendSuccess(task[t]))
               /\ UNCHANGED storeFaults
    /\ UNCHANGED <<messages, citations, searchResults>>
    /\ UNCHANGED exa

\* the catch block: addMessageToChat for the apology reads the orderIndex
SmCatchRead(t) ==
    /\ task[t].pc = "sm_catch_read"
    /\ Set(t, [pc |-> "sm_catch_insert",
               orderIndex |-> NextOrderIndex(task[t].chatId),
               seen |-> OrderIndexes(task[t].chatId)])
    /\ UNCHANGED <<chats, messages, citations, searchResults, storeFaults>>
    /\ UNCHANGED exa

\* a catch block that returns success: false whether or not the apology was
\* stored
SmCatchInsertSwallow(e, t) ==
    /\ task[t].pc = "sm_catch_insert"
    /\ AddMessageInsert(e, t, "apology", "assistant", SendApology, Undef,
                        task[t].orderIndex,
                        Returned(FALSE, SendApology, <<>>),
                        Returned(FALSE, SendApology, <<>>))
    /\ UNCHANGED exa

\* the apology is inserted and success: false returned, or the insert fails
\* and the call throws
SmCatchInsert(e, t) ==
    /\ task[t].pc = "sm_catch_insert"
    /\ AddMessageInsert(e, t, "apology", "assistant", SendApology, Undef,
                        task[t].orderIndex,
                        Returned(FALSE, SendApology, <<>>), Thrown)
    /\ UNCHANGED exa

(***************************************************************************)
(* chatRouter.createChat and its detached background task                  *)
(***************************************************************************)
BgOf(t) == <<"bg", t[2]>>

\* chat-service createChat: the insert of the chat row
CcInsertChat(e, t) ==
    /\ task[t].pc = "idle"
    /\ \E title \in e.callerTitles, content \in Contents, fail \in MayFail(e) :
          IF fail
          THEN /\ storeFaults' = storeFaults + 1
               /\ Set(t, Thrown @@ [storeFailed |-> TRUE])
               /\ UNCHANGED chats
          ELSE /\ InsertChat(t[2], title)
               /\ Set(t, [pc |-> "cc_insert_message", chatId |-> t[2],
                          title |-> title, content |-> content])
               /\ UNCHANGED storeFaults
    /\ UNCHANGED <<messages, citations, searchResults>>
    /\ UNCHANGED exa

\* chat-service createChat: the insert of the first message at orderIndex 0;
\* then the router starts the background task and calls getChatById
CcInsertMessage(e, t) ==
    /\ task[t].pc = "cc_insert_message"
    /\ \E fail \in MayFail(e) :
        IF fail \/ ~ChatExists(task[t].chatId)
        THEN /\ storeFaults' = IF fail THEN storeFaults + 1 ELSE storeFaults
             /\ Set(t, Thrown @@ [storeFailed |-> TRUE])
             /\ UNCHANGED messages
        ELSE /\ messages' = messages \cup
                    {MessageRow(MessageId(t, "user"), task[t].chatId, "user",
                                task[t].content, Undef, 0)}
             /\ task' = [task EXCEPT
                  ![t] = [pc |-> "cc_get_row",
                          messageId |-> MessageId(t, "user")] @@ @,
                  ![BgOf(t)] = (PipelineEntry @@
                                [chatId |-> task[t].chatId,
                                 content |-> task[t].content]) @@ @]
             /\ UNCHANGED storeFaults
    /\ UNCHANGED <<chats, citations, searchResults>>
    /\ UNCHANGED exa

\* getChatById's first select
CcGetRow(t) ==
    /\ task[t].pc = "cc_get_row"
    /\ IF ChatExists(task[t].chatId)
       THEN Set(t, [pc |-> "cc_get_messages",
                    result |-> [NoResult EXCEPT
                                   !.title = chats[task[t].chatId].title]])
       ELSE Set(t, [pc |-> "done",
                    result |-> [NoResult EXCEPT !.status = "returned"]])
    /\ UNCHANGED <<chats, messages, citations, searchResults, storeFaults>>
    /\ UNCHANGED exa

\* getChatById's selects of the messages and of their citations; the chat
\* is returned to the caller
CcGetMessages(t) ==
    /\ task[t].pc = "cc_get_messages"
    /\ \E rows \in SortedReads(task[t].chatId) :
          Set(t, [pc |-> "done",
                  result |-> [task[t].result EXCEPT
                      !.status = "returned", !.found = TRUE,
                      !.messages = [n \in 1..Len(rows) |->
                                       ChatMessage(rows[n])]]])
    /\ UNCHANGED <<chats, messages, citations, searchResults, storeFaults>>
    /\ UNCHANGED exa

BgAfterCitations(r) == IF HasSnapshot(r) THEN "bg_snapshot" ELSE "bg_title_llm"

\* the assistant message is inserted at orderIndex 1
BgAsstInsert(e, t) ==
    /\ task[t].pc = "bg_asst_insert"
    /\ AddMessageInsert(e, t, "answer", "assistant", task[t].answer, task[t].searchQuery, 1,
                        [pc |-> IF HasCitationRows(task[t])
                                THEN "bg_asst_citations"
                                ELSE BgAfterCitations(task[t])],
                        [pc |-> "bg_catch_insert"])
    /\ UNCHANGED exa

BgAsstCitations(e, t) ==
    /\ task[t].pc = "bg_asst_citations"
    /\ AddMessageCitations(e, t, [pc |-> BgAfterCitations(task[t])],
                           [pc |-> "bg_catch_insert"])
    /\ UNCHANGED exa

BgSnapshot(e, t) ==
    /\ task[t].pc = "bg_snapshot"
    /\ AddSearchResultsToMessage(e, t, [pc |-> "bg_title_llm"],
                                 [pc |-> "bg_catch_insert"])
    /\ UNCHANGED exa

BgTitleLLM(e, t) ==
    /\ task[t].pc = "bg_title_llm"
    /\ \E up \in Upstream(e, e.titles) :
          LET r == callLLM(up) IN
          IF r.ok
          THEN Set(t, Called(up) @@ [pc |-> "bg_update_title", title |-> CleanTitle(r.text)])
          ELSE Set(t, Called(up) @@ [pc |-> "bg_catch_insert",
                       failed |-> task[t].failed \cup {"title"}])
    /\ UNCHANGED <<chats, messages, citations, searchResults, storeFaults>>
    /\ UNCHANGED exa

BgUpdateTitle(e, t) ==
    /\ task[t].pc = "bg_update_title"
    /\ \E fail \in MayFail(e) :
          IF fail
          THEN /\ storeFaults' = storeFaults + 1
               /\ Set(t, [pc |-> "bg_catch_insert", storeFailed |-> TRUE])
               /\ UNCHANGED chats
          ELSE /\ UpdateTitle(task[t].chatId, task[t].title)
               /\ Set(t, [pc |-> "done"])
               /\ UNCHANGED storeFaults
    /\ UNCHANGED <<messages, citations, searchResults>>
    /\ UNCHANGED exa

\* the catch block of the background task: the apology at orderIndex 1; a
\* failure of this insert is only logged
BgCatchInsert(e, t) ==
    /\ task[t].pc = "bg_catch_insert"
    /\ AddMessageInsert(e, t, "apology", "assistant", CreateApology, Undef, 1,
                        [pc |-> "done", result |->
                            [NoResult EXCEPT !.status = "apology"]],
                        [pc |-> "done"])
    /\ UNCHANGED exa

\* the awaits of the background task on an LLM or search call
CallPcs == {"gsq_llm", "search", "pqws_llm", "pqwos_llm", "bg_title_llm"}
PipelineCallPcs == CallPcs \ {"bg_title_llm"}

\* a background task that gives up the call it waits for and ends
CallHangsEnds(t) ==
    /\ task[t].pc \in CallPcs
    /\ Set(t, [pc |-> "done", hungAt |-> task[t].pc])
    /\ UNCHANGED <<chats, messages, citations, searchResults, storeFaults>>
    /\ UNCHANGED exa

\* the LLM or search call the task awaits never returns: no timeout and no
\* cancellation, the task stays at this await
CallHangs(t) ==
    /\ task[t].pc \in CallPcs
    /\ Set(t, [pc |-> "hung", hungAt |-> task[t].pc])
    /\ UNCHANGED <<chats, messages, citations, searchResults, storeFaults>>
    /\ UNCHANGED exa

(***************************************************************************)
(* chatRouter.deleteChat                                                   *)
(***************************************************************************)
DeleteChat(c) ==
    /\ Addressable(c)
    /\ ChatExists(c)
    /\ CascadeDelete(c)
    /\ UNCHANGED <<task, storeFaults, exa>>

(***************************************************************************)
(* chatRouter.getChat                                                      *)
(***************************************************************************)
\* the tables as a select finds them
Store == [chats |-> chats, messages |-> messages, citations |-> citations]

\* a getChat that hands getChatById's null to its caller
GcGetRowNull(t) ==
    /\ task[t].pc = "idle"
    /\ \E c \in ChatIds \cup {UnknownChat} :
          IF ChatExists(c)
          THEN Set(t, [pc |-> "gc_get_messages", chatId |-> c,
                       store0 |-> Store,
                       result |-> [NoResult EXCEPT !.title = chats[c].title]])
          ELSE Set(t, [pc |-> "done", chatId |-> c,
                       store0 |-> Store, store1 |-> Store,
                       result |-> [NoResult EXCEPT !.status = "returned"]])
    /\ UNCHANGED <<chats, messages, citations, searchResults, storeFaults>>
    /\ UNCHANGED exa

\* the call arrives with an id; getChatById's first select finds the chat
\* row, or getChat throws the not-found error
GcGetRow(t) ==
    /\ task[t].pc = "idle"
    /\ \E c \in ChatIds \cup {UnknownChat} :
          IF ChatExists(c)
          THEN Set(t, [pc |-> "gc_get_messages", chatId |-> c,
                       store0 |-> Store,
                       result |-> [NoResult EXCEPT !.title = chats[c].title]])
          ELSE Set(t, [chatId |-> c, store0 |-> Store, store1 |-> Store]
                          @@ Thrown)
    /\ UNCHANGED <<chats, messages, citations, searchResults, storeFaults>>
    /\ UNCHANGED exa

\* getChatById's selects of the messages and of their citations; the chat
\* is returned
GcGetMessages(t) ==
    /\ task[t].pc = "gc_get_messages"
    /\ \E rows \in SortedReads(task[t].chatId) :
          Set(t, [pc |-> "done", store1 |-> Store,
                  result |-> [task[t].result EXCEPT
                      !.status = "returned", !.found = TRUE,
                      !.messages = [n \in 1..Len(rows) |->
                                       ChatMessage(rows[n])]]])
    /\ UNCHANGED <<chats, messages, citations, searchResults, storeFaults>>
    /\ UNCHANGED exa

(***************************************************************************)
(* The chat page: useQuery on getChat with refetchInterval                 *)
(***************************************************************************)
\* the getChat query of the page
PageTasks == {<<"get", 1>>}

\* refetchInterval(data): 2000 (TRUE) while the last message returned is a
\* user message or the title is "New Chat", false otherwise
RefetchInterval(data) ==
    \/ /\ Len(data.messages) > 0
       /\ data.messages[Len(data.messages)].role = "user"
    \/ data.title = NewChat

\* the interval has passed after a fetch that returned the chat: the query
\* refetches, getChatById's first select runs again for the same id
PollRefetch(t) ==
    /\ task[t].pc = "done"
    /\ task[t].result.found
    /\ RefetchInterval(task[t].result)
    /\ IF ChatExists(task[t].chatId)
       THEN Set(t, [pc |-> "gc_get_messages", store0 |-> Store,
                    result |-> [NoResult EXCEPT
                                   !.title = chats[task[t].chatId].title]])
       ELSE Set(t, [store0 |-> Store, store1 |-> Store] @@ Thrown)
    /\ UNCHANGED <<chats, messages, citations, searchResults, storeFaults>>
    /\ UNCHANGED exa

(***************************************************************************)
(* Specification                                                           *)
(***************************************************************************)
\* the steps of processUserMessage, of sendMessage, of createChat and of the
\* background task in environment e
PipelineStep(e, t) ==
    \/ GenerateSearchQuery(e, t)
    \/ SearchWeb(e, t)
    \/ ProcessQueryWithSearch(e, t)
    \/ ProcessQueryWithoutSearch(e, t)

SendMessageStep(e, t) ==
    \/ SmUserRead(t)
    \/ SmUserInsert(e, t)
    \/ SmAsstRead(t)
    \/ SmAsstInsert(e, t)
    \/ SmAsstCitations(e, t)
    \/ SmSnapshot(e, t)
    \/ SmGetRow(t)
    \/ SmGetMessages(t)
    \/ SmTitleLLM(e, t)
    \/ SmUpdateTitle(e, t)
    \/ SmCatchRead(t)
    \/ SmCatchInsert(e, t)

CreateChatStep(e, t) ==
    \/ CcInsertChat(e, t)
    \/ CcInsertMessage(e, t)
    \/ CcGetRow(t)
    \/ CcGetMessages(t)

BackgroundStep(e, t) ==
    \/ BgAsstInsert(e, t)
    \/ BgAsstCitations(e, t)
    \/ BgSnapshot(e, t)
    \/ BgTitleLLM(e, t)
    \/ BgUpdateTitle(e, t)
    \/ BgCatchInsert(e, t)

GetChatStep(t) ==
    \/ GcGetRow(t)
    \/ GcGetMessages(t)

\* the messages of n earlier turns, user and assistant alternating
EarlierMessages(n) ==
    {MessageRow(MessageId(<<"earlier", j>>,
                          IF j % 2 = 0 THEN "user" ELSE "answer"),
                1, IF j % 2 = 0 THEN "user" ELSE "assistant",
                <<"m">>, Undef, j) : j \in 0..(n - 1)}

\* chat 1 as earlier calls left it (createChat and its background task are
\* over), with a placeholder or a generated title
InitSend ==
    /\ \E title \in {NewChat, <<"T">>}, n \in {0, 2, 4} :
          /\ chats = (1 :> [title |-> title])
          /\ messages = EarlierMessages(n)
    /\ citations = {}
    /\ searchResults = {}
    /\ task = [t \in Tasks |->
                  IF t \in SendTasks \cup GetTasks THEN IdleTask
                  ELSE [IdleTask EXCEPT !.pc = "done", !.chatId = 1]]
    /\ storeFaults = 0
    /\ exa \in LoadedModule \cup UsedModule

\* the router under interleaved calls: createChat with its background task,
\* sendMessage calls and deleteChat, on an empty store or on one that holds
\* a chat of earlier calls
Next ==
    \/ \E t \in SendTasks \cup BgTasks : PipelineStep(SmallEnv, t)
    \/ \E t \in SendTasks : SendMessageStep(SmallEnv, t)
    \/ \E t \in CreateTasks : CreateChatStep(SmallEnv, t)
    \/ \E t \in BgTasks : BackgroundStep(SmallEnv, t)
    \/ \E c \in ChatIds : DeleteChat(c)

Spec == (Init \/ InitSend) /\ [][Next]_vars

(***************************************************************************)
(* One sendMessage call on a chat left by earlier calls, with every        *)
(* outcome of the collaborators and failing store writes                   *)
(***************************************************************************)
NextSend ==
    \/ \E t \in SendTasks : PipelineStep(FullEnv, t)
    \/ \E t \in SendTasks : SendMessageStep(FullEnv, t)
    \/ \E c \in ChatIds : DeleteChat(c)

SpecSend == InitSend /\ [][NextSend]_vars

(***************************************************************************)
(* One createChat call and its background task, with every outcome of the  *)
(* collaborators and failing store writes                                  *)
(***************************************************************************)
NextCreate ==
    \/ \E t \in CreateTasks : CreateChatStep(FullEnv, t)
    \/ \E t \in BgTasks : PipelineStep(FullEnv, t)
    \/ \E t \in BgTasks : BackgroundStep(FullEnv, t)
    \/ \E c \in ChatIds : DeleteChat(c)

SpecCreate == Init /\ [][NextCreate]_vars

(***************************************************************************)
(* processUserMessage of one sendMessage call that has stored its user     *)
(* message, over the texts the answering LLM call may return               *)
(***************************************************************************)
InitNormalize ==
    /\ chats = (1 :> [title |-> NewChat])
    /\ messages = {MessageRow(MessageId(<<"send", 1>>, "user"), 1, "user",
                              <<"m">>, Undef, 0)}
    /\ citations = {}
    /\ searchResults = {}
    /\ task = [t \in Tasks |->
                  IF t = <<"send", 1>>
                  THEN PipelineEntry @@
                       [IdleTask EXCEPT !.chatId = 1, !.content = <<"m">>,
                                        !.messageId = MessageId(t, "user")]
                  ELSE IF t \in GetTasks THEN IdleTask
                  ELSE [IdleTask EXCEPT !.pc = "done", !.chatId = 1]]
    /\ storeFaults = 0
    /\ exa \in LoadedModule

NextNormalize == \E t \in SendTasks : PipelineStep(NormalizeEnv, t)

SpecNormalize == InitNormalize /\ [][NextNormalize]_vars

\* processUserMessage of the same call over the texts the query-generation
\* LLM call may return
NextQuery == \E t \in SendTasks : PipelineStep(QueryEnv, t)

SpecQuery == InitNormalize /\ [][NextQuery]_vars

(***************************************************************************)
(* getChat calls beside one createChat call, its background task and       *)
(* deleteChat                                                              *)
(***************************************************************************)
NextGet ==
    \/ \E t \in CreateTasks : CreateChatStep(SmallEnv, t)
    \/ \E t \in BgTasks : PipelineStep(SmallEnv, t)
    \/ \E t \in BgTasks : BackgroundStep(SmallEnv, t)
    \/ \E c \in ChatIds : DeleteChat(c)
    \/ \E t \in GetTasks : GetChatStep(t)

SpecGet == Init /\ [][NextGet]_vars

(***************************************************************************)
(* Two sendMessage calls on one chat of earlier calls                      *)
(***************************************************************************)
InitRace ==
    /\ \E n \in {0, 2} :
          /\ chats = (1 :> [title |-> NewChat])
          /\ messages = EarlierMessages(n)
    /\ citations = {}
    /\ searchResults = {}
    /\ task = [t \in Tasks |->
                  IF t \in RaceTasks THEN IdleTask
                  ELSE [IdleTask EXCEPT !.pc = "done", !.chatId = 1]]
    /\ storeFaults = 0
    /\ exa \in UsedModule

NextRace ==
    \/ \E t \in RaceTasks : PipelineStep(SmallEnv, t)
    \/ \E t \in RaceTasks : SendMessageStep(SmallEnv, t)

SpecRace == InitRace /\ [][NextRace]_vars

(***************************************************************************)
(* One createChat call and its background task under the scheduling of the *)
(* event loop: a continuation whose awaited call has settled is run, and   *)
(* a call of the background task may never return                          *)
(***************************************************************************)
NextBackground ==
    \/ \E t \in CreateTasks : CreateChatStep(FullEnv, t)
    \/ \E t \in BgTasks : PipelineStep(FullEnv, t)
    \/ \E t \in BgTasks : BackgroundStep(FullEnv, t)
    \/ \E t \in BgTasks : CallHangs(t)
    \/ \E c \in ChatIds : DeleteChat(c)

SpecBackground ==
    /\ Init /\ [][NextBackground]_vars
    /\ \A t \in CreateTasks : WF_vars(CreateChatStep(FullEnv, t))
    /\ \A t \in BgTasks :
          WF_vars(PipelineStep(FullEnv, t) \/ BackgroundStep(FullEnv, t))

(***************************************************************************)
(* The chat page polling getChat beside createChat, called by the sidebar  *)
(* with the title "New Chat", and its background task                      *)
(***************************************************************************)
NextPoll ==
    \/ \E t \in CreateTasks : CreateChatStep(SmallEnv, t)
    \/ \E t \in BgTasks : PipelineStep(SmallEnv, t)
    \/ \E t \in BgTasks : BackgroundStep(SmallEnv, t)
    \/ \E t \in PageTasks : GetChatStep(t)
    \/ \E t \in PageTasks : PollRefetch(t)

SpecPoll == Init /\ [][NextPoll]_vars

(***************************************************************************)
(* The router beside a second chat of earlier calls: deleteChat on either  *)
(* chat while createChat, its background task or sendMessage are running   *)
(***************************************************************************)
OtherChat == 3
OtherQuestion == MessageId(<<"earlier", OtherChat>>, "user")
OtherAnswer == MessageId(<<"earlier", OtherChat>>, "answer")
OtherMessages ==
    {MessageRow(OtherQuestion, OtherChat, "user", <<"m">>, Undef, 0),
     MessageRow(OtherAnswer, OtherChat, "assistant", <<"h", "i">>, <<"q">>, 1)}
OtherCitations ==
    {[messageId |-> OtherAnswer, n |-> 1, title |-> <<"t">>,
      url |-> <<"u", ":", "x">>, relevance |-> Undef]}
OtherSnapshots ==
    {[messageId |-> OtherAnswer, query |-> <<"q">>,
      results |-> <<Hit(<<"u", ":", "x">>)>>]}

\* chat 1 not yet created, or left by earlier calls with one exchange
InitDelete ==
    /\ \E existing \in BOOLEAN :
          /\ chats = IF existing
                     THEN (1 :> [title |-> <<"T">>])
                              @@ (OtherChat :> [title |-> <<"T">>])
                     ELSE (OtherChat :> [title |-> <<"T">>])
          /\ messages = IF existing
                        THEN EarlierMessages(2) \cup OtherMessages
                        ELSE OtherMessages
          /\ task = [t \in Tasks |->
                        IF ~existing \/ t \in SendTasks \cup GetTasks
                        THEN IdleTask
                        ELSE [IdleTask EXCEPT !.pc = "done", !.chatId = 1]]
    /\ citations = OtherCitations
    /\ searchResults = OtherSnapshots
    /\ storeFaults = 0
    /\ exa \in LoadedModule \cup UsedModule

NextDelete ==
    \/ \E t \in SendTasks \cup BgTasks : PipelineStep(SmallEnv, t)
    \/ \E t \in SendTasks : SendMessageStep(SmallEnv, t)
    \/ \E t \in CreateTasks : CreateChatStep(SmallEnv, t)
    \/ \E t \in BgTasks : BackgroundStep(SmallEnv, t)
    \/ \E c \in ChatIds \cup {OtherChat} : DeleteChat(c)

SpecDelete == InitDelete /\ [][NextDelete]_vars

(***************************************************************************)
(* Properties                                                              *)
(***************************************************************************)
\* the rows a call stored that are still in the message table
Added(t) == {m \in messages : m.id.by = t}
Finished(t) == task[t].pc = "done"
LLMStages == {"query", "answer", "fallback", "title"}
\* the stages whose failure ends the try block of sendMessage
FatalStages == {"fallback", "title"}
\* the LLM texts that carry a non-empty answer
TextsWithAnswer == (AnswerTexts \ {EmptyAnswer, <<>>}) \cup {NoResponseText}

ApologyRow(t) ==
    MessageRow(MessageId(t, "apology"), task[t].chatId, "assistant",
               SendApology, Undef, task[t].orderIndex)

\* C2 as stated: a sendMessage call in which an LLM call failed at any
\* stage returns success = false with the apology, which it has stored
\* (stated for the calls whose store writes were all accepted and whose chat
\* still exists).
C2_AnyLLMFailureApologises ==
    \A t \in SendTasks :
        ( /\ Finished(t)
          /\ task[t].failed \cap LLMStages # {}
          /\ ~task[t].storeFailed
          /\ ChatExists(task[t].chatId) ) =>
            /\ task[t].result.status = "returned"
            /\ ~task[t].result.success
            /\ task[t].result.response = SendApology
            /\ ApologyRow(t) \in messages

\* C2 amended: when the LLM call of the no-search fallback or of title
\* generation fails, sendMessage stores the apology as an assistant message
\* and returns success = false with it and no citations, and it throws only
\* if the store rejects the apology; a failure of search-query generation or
\* of the search-based answer alone is recovered by the no-search fallback
\* and, with every store write accepted, the call returns success = true.
C2_FatalLLMFailureApologises ==
    \A t \in SendTasks :
        Finished(t) =>
            /\ task[t].failed \cap FatalStages # {} =>
                  /\ task[t].result.status = "returned" =>
                        /\ ~task[t].result.success
                        /\ task[t].result.response = SendApology
                        /\ task[t].result.citations = <<>>
                        /\ task[t].messageId = MessageId(t, "apology")
                        /\ ChatExists(task[t].chatId)
                              => ApologyRow(t) \in messages
                  /\ task[t].result.status # "returned" =>
                        /\ task[t].result.status = "thrown"
                        /\ task[t].storeFailed
            /\ ( /\ task[t].failed \cap FatalStages = {}
                 /\ ~task[t].storeFailed ) =>
                  /\ task[t].result.status = "returned"
                  /\ task[t].result.success

\* a call whose title generation failed and that returned the apology
C2_Witness ==
    \E t \in SendTasks :
        /\ Finished(t)
        /\ "title" \in task[t].failed
        /\ task[t].result.status = "returned"
        /\ ~task[t].result.success
        /\ ApologyRow(t) \in messages

\* C3: processUserMessage throws exactly when the LLM call of the no-search
\* fallback failed; after a failure of search-query generation, of the search
\* or of the search-based answer alone it returns an answer.
C3_ThrowsOnlyWhenFallbackFails ==
    \A t \in Tasks :
        /\ task[t].pum = "threw" => "fallback" \in task[t].failed
        /\ ( /\ task[t].failed \cap {"query", "search", "answer"} # {}
             /\ "fallback" \notin task[t].failed
             /\ task[t].pum # "none" ) => task[t].pum = "returned"
        /\ ( /\ task[t].failed \cap {"query", "search", "answer"} # {}
             /\ task[t].pum = "none" ) => task[t].pc = "pqwos_llm"

\* a run whose search-based answer failed and that returned all the same
C3_Witness ==
    \E t \in Tasks :
        /\ "answer" \in task[t].failed
        /\ task[t].pum = "returned"
        /\ task[t].llmResponse \in TextsWithAnswer

\* C4: a finished sendMessage call has added to its chat exactly one user
\* message and, after it, exactly one assistant message (stated for the
\* calls whose store writes were all accepted and whose chat still exists).
C4_OneUserOneAssistant ==
    \A t \in SendTasks :
        ( /\ Finished(t)
          /\ ~task[t].storeFailed
          /\ ChatExists(task[t].chatId) ) =>
            \E u, a \in Added(t) :
                /\ Added(t) = {u, a}
                /\ u.role = "user" /\ a.role = "assistant"
                /\ u.orderIndex < a.orderIndex

\* C5 as stated: no finished sendMessage call, returned or thrown, leaves the
\* user message it stored without a later assistant message of the chat.
C5_NoUnansweredUserMessage ==
    \A t \in SendTasks :
        Finished(t) =>
            \A u \in Added(t) :
                u.role = "user" =>
                    \E a \in MessagesOf(u.chatId) :
                        a.role = "assistant" /\ a.orderIndex > u.orderIndex

\* C5 amended: no sendMessage call that returns a result leaves the user
\* message it stored without a later assistant message; a call that throws
\* (the store rejected the apology) may.
C5_ReturnedCallsAreAnswered ==
    \A t \in SendTasks :
        (Finished(t) /\ task[t].result.status = "returned") =>
            \A u \in Added(t) :
                u.role = "user" =>
                    \E a \in Added(t) :
                        a.role = "assistant" /\ a.orderIndex > u.orderIndex

\* a call that returned the apology after its pipeline threw, with its user
\* message stored
C5_Witness ==
    \E t \in SendTasks :
        /\ Finished(t)
        /\ task[t].result.status = "returned"
        /\ task[t].pum = "threw"
        /\ \E u \in Added(t) : u.role = "user"
        /\ ApologyRow(t) \in Added(t)

\* C10: the citations of a result that processUserMessage returns are a list
\* of at most five entries with valid URLs.
C10_CitationsAreAList ==
    \A t \in SendTasks :
        task[t].pum = "returned" =>
            /\ task[t].hasCitations
            /\ Len(task[t].citations) <= MaxCitations
            /\ \A n \in 1..Len(task[t].citations) :
                  IsUrl(task[t].citations[n].url)

CreateOf(k) == <<"create", k>>
BackgroundOf(k) == <<"bg", k>>

\* C6: once the background task of a created chat has finished, the chat has
\* exactly two messages, the user message at orderIndex 0 and an assistant
\* message at orderIndex 1, and a title other than the one passed at
\* creation (stated for the runs whose store writes were all accepted and
\* whose chat still exists).
C6_TwoMessagesAndNewTitle ==
    \A k \in ChatIds :
        ( /\ Finished(BackgroundOf(k))
          /\ Finished(CreateOf(k))
          /\ storeFaults = 0
          /\ ChatExists(k) ) =>
            /\ \E u, a \in MessagesOf(k) :
                  /\ MessagesOf(k) = {u, a}
                  /\ u.role = "user" /\ u.orderIndex = 0
                  /\ a.role = "assistant" /\ a.orderIndex = 1
            /\ chats[k].title # task[CreateOf(k)].title

\* the first user message as getChatById returns it
FirstMessage(t) ==
    [id |-> MessageId(t, "user"), role |-> "user", content |-> task[t].content,
     searchQuery |-> Undef, citations |-> <<>>, orderIndex |-> 0]

\* C7 as stated: the chat that createChat returns carries the title the
\* caller passed and the first user message at orderIndex 0.
C7_ReturnsCallerTitle ==
    \A t \in CreateTasks :
        (Finished(t) /\ task[t].result.status = "returned") =>
            /\ task[t].result.found
            /\ task[t].result.title = task[t].title
            /\ task[t].result.messages # <<>>
            /\ task[t].result.messages[1] = FirstMessage(t)

\* C7 amended: createChat returns without waiting for the background task;
\* the chat it returns carries the first user message at orderIndex 0, and
\* the title the caller passed unless the background task has by then
\* replaced it with the generated title.
C7_ReturnsFirstMessage ==
    \A t \in CreateTasks :
        (Finished(t) /\ task[t].result.status = "returned") =>
            /\ task[t].result.found
            /\ task[t].result.messages # <<>>
            /\ task[t].result.messages[1] = FirstMessage(t)
            /\ \/ task[t].result.title = task[t].title
               \/ /\ Finished(BgOf(t))
                  /\ task[t].result.title = task[BgOf(t)].title

\* createChat has returned the chat with the caller's title and the user
\* message alone while the background task still waits for its first LLM call
C7_Witness ==
    \E t \in CreateTasks :
        /\ Finished(t)
        /\ task[t].result.found
        /\ task[t].result.title = <<"C">>
        /\ task[t].result.messages = <<FirstMessage(t)>>
        /\ task[BgOf(t)].pc = "gsq_llm"

\* C8: no two messages of a chat have the same orderIndex (stated for the
\* runs whose store writes were all accepted).
C8_UniqueOrderIndex ==
    storeFaults = 0 =>
        \A m, n \in messages :
            (m.chatId = n.chatId /\ m.orderIndex = n.orderIndex) => m = n

\* the orderIndex addMessageToChat computes from the values its read found
ExpectedOrderIndex(S) == IF S = {} THEN 0 ELSE SetMax(S) + 1

\* C9: a message stored without an explicit orderIndex (the messages of
\* sendMessage) gets 1 + the largest orderIndex its call's read found in the
\* chat, or 0 when the read found no message; a message stored with an
\* explicit orderIndex (0 by createChat, 1 by the background task) gets
\* exactly that value.
C9_OrderIndexAssignment ==
    [][\A m \in messages' \ messages :
          m.orderIndex =
              CASE m.id.by[1] = "send" ->
                       ExpectedOrderIndex(task[m.id.by].seen)
                [] m.id.by[1] = "create" -> 0
                [] OTHER -> 1]_vars

\* a sendMessage call has stored a message behind the two of createChat,
\* and another in a chat that its read found empty
C9_Witness ==
    /\ \E m \in messages : m.id.by \in SendTasks /\ m.orderIndex = 2
    /\ \E m \in messages : m.id.by \in BgTasks /\ m.orderIndex = 1
    /\ \E m \in messages : m.id.by \in CreateTasks /\ m.orderIndex = 0

\* the malformed texts that the cleaning steps (control characters removed,
\* code fence removed) turn into a conforming object with an empty answer
CleanToEmptyAnswer ==
    {o.text : o \in {x \in FencedObjects : x.answer = <<>>}}
        \cup WithControl(EmptyAnswer, "LF")

\* C11 (as stated): every non-empty LLM text that is malformed as structured
\* output (truncated, fenced, with stray control characters, failing the
\* schema) is normalized to a non-empty answer, in the search path and in
\* the no-search path.
C11_MalformedGivesAnswer ==
    \A t \in SendTasks :
        (task[t].pum = "returned" /\ task[t].llmResponse \in MalformedTexts)
            => task[t].answer # <<>>

\* C11 (amended): the same, except for the texts that the cleaning steps turn
\* into a schema-conforming object whose answer is the empty string.
C11_MalformedGivesAnswerUnlessEmptyObject ==
    \A t \in SendTasks :
        (/\ task[t].pum = "returned"
         /\ task[t].llmResponse \in MalformedTexts \ CleanToEmptyAnswer)
            => task[t].answer # <<>>

\* a truncated object answered in the no-search path by its answer field
C11_Witness ==
    \E t \in SendTasks :
        /\ task[t].pum = "returned"
        /\ task[t].fallback
        /\ task[t].llmResponse = TruncatedAnswer
        /\ task[t].answer = <<"h", "i">>

\* C12: when the LLM response is a schema-conforming object wrapped in a code
\* fence, with or without the json tag, the search path returns exactly that
\* object's answer and citations.
C12_FencedObjectReturned ==
    \A t \in SendTasks :
        (task[t].pum = "returned" /\ task[t].hasResults)
            => \A o \in FencedObjects :
                  o.text = task[t].llmResponse
                      => /\ task[t].answer = o.answer
                         /\ task[t].hasCitations
                         /\ task[t].citations = o.citations

\* C12's literal scenario: the fenced {"answer":"hi","citations":[]} yields
\* answer "hi" and an empty citations list
C12_FencedHiScenario ==
    \A t \in SendTasks :
        (/\ task[t].pum = "returned" /\ task[t].hasResults
         /\ task[t].llmResponse = FencedAnswer)
            => /\ task[t].answer = <<"h", "i">>
               /\ task[t].hasCitations /\ task[t].citations = <<>>

\* the ids of the messages a getChat call returned, in the order returned,
\* and the citations it returned for each of them
ReturnedIds(t) ==
    [n \in 1..Len(task[t].result.messages) |-> task[t].result.messages[n].id]
ReturnedCitations(t) ==
    {<<task[t].result.messages[n].id,
       {task[t].result.messages[n].citations[k] :
           k \in 1..Len(task[t].result.messages[n].citations)}>> :
        n \in 1..Len(task[t].result.messages)}
ReturnedChat(t) ==
    /\ t \in GetTasks /\ Finished(t)
    /\ task[t].result.status = "returned" /\ task[t].result.found
\* no store write from the first select of either call to the last select of
\* either: the tables never return to an earlier content after a write
NoWriteBetween(t, u) ==
    /\ task[t].store0 = task[t].store1
    /\ task[t].store1 = task[u].store0
    /\ task[u].store0 = task[u].store1

\* C13: two getChat calls for the same chat with no store write between them
\* return the same message sequence and, per message, the same set of
\* citations, also when two messages share an orderIndex.
C13_GetChatIdempotent ==
    \A t, u \in GetTasks :
        (/\ ReturnedChat(t) /\ ReturnedChat(u)
         /\ task[t].chatId = task[u].chatId
         /\ NoWriteBetween(t, u))
            => /\ ReturnedIds(t) = ReturnedIds(u)
               /\ ReturnedCitations(t) = ReturnedCitations(u)

\* C14: every message getChat returns carries a citations list that holds
\* exactly the citations stored for that message (none for a message stored
\* without any) and none of another message's.
C14_OwnCitations ==
    \A t \in GetTasks :
        ReturnedChat(t)
            => \A n \in 1..Len(task[t].result.messages) :
                  LET m == task[t].result.messages[n]
                      rows == {r \in task[t].store1.citations :
                                  r.messageId = m.id}
                  IN /\ Len(m.citations) = Cardinality(rows)
                     /\ {m.citations[k] : k \in 1..Len(m.citations)}
                           = {[title |-> r.title, url |-> r.url,
                               relevance |-> r.relevance] : r \in rows}

\* a returned chat with a message without citations and one with a citation
C14_Witness ==
    \E t \in GetTasks :
        /\ ReturnedChat(t)
        /\ \E n, k \in 1..Len(task[t].result.messages) :
              /\ task[t].result.messages[n].citations = <<>>
              /\ Len(task[t].result.messages[k].citations) = 1

\* C18: getChat throws the not-found error for every id that is not in the
\* store when its select runs (never created, or deleted) and returns the
\* chat for every id that is; it never returns null.
C18_NotFoundOrChat ==
    \A t \in GetTasks :
        Finished(t)
            => IF task[t].chatId \in DOMAIN task[t].store0.chats
               THEN /\ task[t].result.status = "returned"
                    /\ task[t].result.found
                    /\ task[t].result.title
                          = task[t].store0.chats[task[t].chatId].title
               ELSE task[t].result.status = "thrown"

\* one call returned the chat and another one failed for the same id, which
\* was deleted or not yet created when that call ran
C18_Witness ==
    \E t, u \in GetTasks :
        /\ ReturnedChat(t) /\ Finished(u)
        /\ task[u].chatId = task[t].chatId
        /\ task[u].result.status = "thrown"

\* the chats whose title a step changes
Retitled == {c \in DOMAIN chats \cap DOMAIN chats' :
                chats'[c].title # chats[c].title}

\* C15 (as stated): the pipeline overwrites the title of a chat only when
\* that chat holds at most 3 stored messages.
C15_TitleOnlyForShortChats ==
    [][\A c \in Retitled : Cardinality(MessagesOf(c)) <= TitleMaxMessages]_vars

\* C15 (amended): a title is overwritten only by a sendMessage call whose
\* getChat read found at most 3 messages, or by the background task of
\* createChat, which does not look at the number of messages.
C15_TitleAfterShortRead ==
    [][\A c \in Retitled :
          \E t \in SendTasks \cup BgTasks :
              /\ task[t].chatId = c
              /\ task'[t].pc # task[t].pc
              /\ \/ /\ t \in SendTasks
                    /\ task[t].pc = "sm_update_title"
                    /\ task[t].messageCount <= TitleMaxMessages
                 \/ /\ t \in BgTasks
                    /\ task[t].pc = "bg_update_title"]_vars

\* a sendMessage call has found at most 3 messages and written the title
C15_Witness ==
    \E t \in SendTasks :
        /\ Finished(t) /\ task[t].result.success
        /\ task[t].messageCount \in 1..TitleMaxMessages
        /\ ChatExists(task[t].chatId)
        /\ task[t].title # <<>>
        /\ chats[task[t].chatId].title = task[t].title

\* C16 (as stated): whenever a store write fails during sendMessage, the call
\* ends by raising the generic failure and returns no result object.
C16_StoreFailureThrows ==
    \A t \in SendTasks :
        (Finished(t) /\ task[t].storeFailed /\ ChatExists(task[t].chatId))
            => task[t].result.status = "thrown"

\* C16 (amended): after a failed store write sendMessage never returns
\* success: it returns success=false with the apology text when the apology
\* was stored, and raises the generic failure when that write failed too.
C16_StoreFailureApologisesOrThrows ==
    \A t \in SendTasks :
        (Finished(t) /\ task[t].storeFailed)
            => \/ /\ task[t].result.status = "returned"
                  /\ ~task[t].result.success
                  /\ task[t].result.response = SendApology
                  /\ task[t].messageId = MessageId(t, "apology")
               \/ /\ task[t].result.status = "thrown"
                  /\ task[t].messageId # MessageId(t, "apology")

\* a write of the try block was rejected and the call returned the apology
C16_Witness ==
    \E t \in SendTasks :
        /\ Finished(t) /\ task[t].storeFailed /\ storeFaults > 0
        /\ task[t].failed = {}
        /\ task[t].result.status = "returned"
        /\ ApologyRow(t) \in messages

\* every message refers to an existing chat, every citation and every search
\* snapshot to an existing message
ReferentialIntegrity ==
    /\ \A m \in messages : ChatExists(m.chatId)
    /\ \A r \in citations : MessageExists(r.messageId)
    /\ \A r \in searchResults : MessageExists(r.messageId)
\* the rows of the chats other than c
RowsOfOthers(c) ==
    LET ms == {m \in messages : m.chatId # c} IN
    [chats |-> [d \in DOMAIN chats \ {c} |-> chats[d]],
     messages |-> ms,
     citations |-> {r \in citations : \E m \in ms : m.id = r.messageId},
     searchResults |-> {r \in searchResults : \E m \in ms : m.id = r.messageId}]

\* C17: referential integrity holds in every state, and a deleteChat step on
\* chat c leaves the rows of every other chat as they were (by integrity no
\* row of c is left, and none can be stored later: the chat id is not used
\* again), also while sendMessage or the background task run on c.
C17_CascadeDelete ==
    /\ []ReferentialIntegrity
    /\ [][\A c \in DOMAIN chats \ DOMAIN chats' :
              /\ RowsOfOthers(c)' = RowsOfOthers(c)
              /\ \A m \in messages' : m.chatId # c]_vars

\* chat 1 was deleted while sendMessage was running on it, the call has ended
\* on a rejected write, and the other chat still has its rows
C17_Witness ==
    \E t \in SendTasks :
        /\ Finished(t) /\ task[t].storeFailed
        /\ ~ChatExists(task[t].chatId)
        /\ messages = OtherMessages
        /\ citations = OtherCitations /\ searchResults = OtherSnapshots

\* C19: callLLM fails when the upstream call errors and when the upstream
\* response holds no text content; it returns text only when the upstream
\* produced text.
C19_NoTextFails ==
    \A t \in SendTasks :
        task[t].call.kind # "none"
            => (task[t].call.ok <=> task[t].call.kind = "text")

\* a step in which task t leaves searchWeb
Searched(t) == task[t].pc = "search" /\ task'[t].pc # "search"

\* C20: the handle is set by a search only; without the credential every
\* search fails and the handle stays unset; with the credential a search
\* leaves the first handle in place, which every later search uses.
C20_LazySearchClient ==
    /\ [](/\ exa.exaClient \in {NoClient, NoClient + 1}
          /\ ~exa.apiKey => exa.exaClient = NoClient)
    /\ [][/\ exa' # exa => \E t \in SendTasks \cup BgTasks : Searched(t)
          /\ \A t \in SendTasks \cup BgTasks :
                Searched(t)
                    => /\ exa'.apiKey = exa.apiKey
                       /\ IF exa.apiKey
                          THEN exa'.exaClient = NoClient + 1
                          ELSE /\ exa'.exaClient = NoClient
                               /\ "search" \in task'[t].failed]_vars

\* the background task and a sendMessage call have both searched, and the
\* module holds the first handle
C20_Witness ==
    /\ exa.exaClient = NoClient + 1
    /\ \E t \in BgTasks, u \in SendTasks :
          task[t].hasResults /\ task[u].hasResults

\* the positions at which a sendMessage call is between the read and the
\* insert of addMessageToChat
InsertPcs == {"sm_user_insert", "sm_asst_insert", "sm_catch_insert"}

\* C21: two addMessageToChat calls on one chat whose reads found the same
\* messages, both made before either insert, hold the same orderIndex (the
\* largest found plus one), and the store accepts each insert although a
\* message of the chat may already be at that position.
C21_ReadRaceSamePosition ==
    /\ [](\A t, u \in RaceTasks :
             (/\ t # u
              /\ task[t].pc \in InsertPcs /\ task[u].pc \in InsertPcs
              /\ task[t].chatId = task[u].chatId
              /\ task[t].seen = task[u].seen)
                => /\ task[t].orderIndex = task[u].orderIndex
                   /\ task[t].orderIndex = ExpectedOrderIndex(task[t].seen))
    /\ [][\A t \in RaceTasks :
             (task[t].pc \in InsertPcs /\ task'[t].pc # task[t].pc)
                => \E m \in messages' \ messages :
                      /\ m.id.by = t
                      /\ m.chatId = task[t].chatId
                      /\ m.orderIndex = task[t].orderIndex]_vars

\* the user messages of the two calls are stored at the same position
C21_Witness ==
    \E m, q \in messages :
        /\ m.id = MessageId(<<"send", 1>>, "user")
        /\ q.id = MessageId(<<"send", 2>>, "user")
        /\ m.chatId = q.chatId
        /\ m.orderIndex = q.orderIndex

\* the row with the given id is stored
Stored(id) == \E m \in messages : m.id = id
\* the snapshots a call has stored
SnapshotsBy(t) == {r \in searchResults : r.messageId.by = t}

\* C22: in every sendMessage run the writes happen in the order user message,
\* assistant message, snapshot: the user message is written while the call
\* has stored no assistant message and no snapshot, and a snapshot is written
\* for the answer of the call, which is already stored.
C22_UserThenAssistantThenSnapshot ==
    /\ [](\A t \in SendTasks :
             \A r \in SnapshotsBy(t) :
                r.messageId = MessageId(t, "answer") /\ Stored(r.messageId))
    /\ [][\A t \in SendTasks :
             /\ (\E m \in Added(t)' \ Added(t) : m.role = "user")
                   => /\ \A m \in Added(t) : m.role # "assistant"
                      /\ SnapshotsBy(t) = {}
             /\ \A r \in SnapshotsBy(t)' \ SnapshotsBy(t) :
                   Stored(r.messageId)]_vars

\* a call has stored its user message, its answer and the snapshot
C22_Witness ==
    \E t \in SendTasks :
        /\ Finished(t) /\ task[t].result.success
        /\ Stored(MessageId(t, "user")) /\ Stored(MessageId(t, "answer"))
        /\ \E r \in searchResults : r.messageId = MessageId(t, "answer")

\* C23: a snapshot is stored for the assistant message of a sendMessage run
\* exactly when searchWeb was called and returned results in that run, also
\* when the generated query is the empty string, and no message has more
\* than one snapshot (stated for the runs without a failed LLM call or store
\* write, whose chat still exists).
C23_SnapshotIffSearched ==
    \A t \in SendTasks :
        (/\ Finished(t) /\ task[t].result.success
         /\ task[t].failed = {} /\ ~task[t].storeFailed
         /\ ChatExists(task[t].chatId))
            => /\ task[t].searched
                  <=> SnapshotsOf(MessageId(t, "answer")) # {}
               /\ \A m \in messages : Cardinality(SnapshotsOf(m.id)) <= 1

\* the assistant messages a task has stored and that are still in the store
RepliesBy(t) == {m \in Added(t) : m.role = "assistant"}
Hung(t) == task[t].pc = "hung"

\* C24 as stated: a background task one of whose LLM or search calls never
\* returns has given its chat no assistant reply.
C24_HungMeansNoReply ==
    \A t \in BgTasks : Hung(t) => RepliesBy(t) = {}

\* C24: once the background task of a chat is started it finishes with an
\* assistant message in the chat, unless a store write fails, the chat is
\* deleted or one of its calls never returns; a task with a call that
\* never returns never finishes and stores nothing more, and when that call
\* belongs to processUserMessage the chat has no assistant reply from it.
C24_TerminatesUnlessHung ==
    /\ \A t \in BgTasks :
          (task[t].pc # "idle")
             ~> \/ Finished(t) /\ RepliesBy(t) # {}
                \/ storeFaults > 0
                \/ ~ChatExists(task[t].chatId)
                \/ Hung(t)
    /\ [](\A t \in BgTasks :
            (Hung(t) /\ task[t].hungAt \in PipelineCallPcs)
                => RepliesBy(t) = {})
    /\ [][\A t \in BgTasks :
            Hung(t) => Hung(t)' /\ Added(t)' \subseteq Added(t)]_vars

\* the background task has finished without a failed store write and its
\* chat holds the assistant message it stored
C24_Witness ==
    \E t \in BgTasks :
        /\ Finished(t) /\ storeFaults = 0 /\ ChatExists(task[t].chatId)
        /\ RepliesBy(t) # {}

\* the tasks that run processUserMessage, and the runs that are over
PipelineTasks == SendTasks \cup BgTasks
PipelineOver(t) == task[t].pum \in {"returned", "threw"}

C26_AnswerFieldPreserved ==
    \A t \in SendTasks :
        (task[t].pum = "returned" /\ ~ValidatedResponse(task[t].llmResponse).ok)
            => /\ task[t].citations = <<>>
               /\ \A o \in TruncatedObjects :
                     (task[t].llmResponse = o.text /\ o.answer # <<>>)
                        => task[t].answer = o.answer
               /\ task[t].llmResponse \in {PlainAnswer, ArrayAnswer}
                     => task[t].answer = task[t].llmResponse

\* the query that generateSearchQuery returned is handed to searchWeb
Handed(t) == task[t].pc = "search"
HasPrefix(q) ==
    StartsAt([n \in 1..Len(q) |-> ToLower(q[n])], SearchQueryPrefix, 1)
Wrapped(q) ==
    Len(q) >= 2 /\ q[1] \in {"\"", "'"} /\ q[Len(q)] \in {"\"", "'"}

\* C27: the query handed to searchWeb has no wrapping quotes, no leading
\* "Search query:" prefix and no white space at either end, and cleaning
\* it again changes nothing.
C27_CleanQuery ==
    \A t \in SendTasks :
        Handed(t) =>
            LET q == task[t].searchQuery IN
            /\ ~Wrapped(q)
            /\ ~HasPrefix(q)
            /\ Trim(q) = q
            /\ CleanSearchQuery(q) = q

\* C28: an LLM response that is a strictly valid JSON object conforming to
\* the schema, without fence or stray text, is returned by the search path
\* with its answer and citations unchanged, also when the answer holds an
\* escaped quote or an escaped newline.
C28_PlainObjectUnchanged ==
    \A t \in SendTasks :
        (task[t].pum = "returned" /\ task[t].hasResults)
            => \A o \in PlainObjects :
                  o.text = task[t].llmResponse
                      => /\ task[t].answer = o.answer
                         /\ task[t].hasCitations
                         /\ task[t].citations = o.citations

\* the assistant message a sendMessage call persisted last: the apology of
\* its catch block when it stored one, its answer otherwise
LastReplyId(t) ==
    IF Stored(MessageId(t, "apology")) THEN MessageId(t, "apology")
    ELSE MessageId(t, "answer")
\* the citations stored for a message, as title, url and relevance
StoredCitations(id) ==
    [n \in 1..Len(CitationsOf(id)) |->
        [title |-> CitationsOf(id)[n].title, url |-> CitationsOf(id)[n].url,
         relevance |-> CitationsOf(id)[n].relevance]]

\* C29: the response text and the citations that a sendMessage call returns
\* are the content and the citations of the assistant message the call
\* persisted last, on the success path and on the apology path (stated
\* while the chat exists).
C29_ReturnsWhatItStored ==
    \A t \in SendTasks :
        (/\ Finished(t) /\ task[t].result.status = "returned"
         /\ ChatExists(task[t].chatId))
            => /\ \E m \in messages :
                     /\ m.id = LastReplyId(t) /\ m.role = "assistant"
                     /\ m.content = task[t].result.response
               /\ StoredCitations(LastReplyId(t)) = task[t].result.citations
               /\ task[t].result.success
                     <=> LastReplyId(t) = MessageId(t, "answer")

\* a call has returned an answer with a citation, both as stored
C29_Witness ==
    \E t \in SendTasks :
        /\ Finished(t) /\ task[t].result.success
        /\ ChatExists(task[t].chatId)
        /\ task[t].result.citations # <<>>
        /\ StoredCitations(MessageId(t, "answer")) = task[t].result.citations

\* C30: once the background task of a chat created through createChat has
\* finished, the page's polling of getChat stops: a fetch that returned the
\* chat as it is stored after the task's end asks for no further refetch.
C30_PollingStopsAfterBackground ==
    \A t \in PageTasks :
        (/\ task[t].pc = "done" /\ task[t].result.found
         /\ task[t].chatId \in ChatIds
         /\ Finished(CreateOf(task[t].chatId))
         /\ Finished(BackgroundOf(task[t].chatId))
         /\ task[t].store0 = Store)
            => ~RefetchInterval(task[t].result)

====
